---- MODULE Spec2Model ----
(***************************************************************************)
(* check-maildomain: the DNS record normalisation layer, the domain        *)
(* profile aggregator (CollectDNSInfo) and the rule engine (ApplyAllRules).*)
(*                                                                         *)
(* Go strings are modelled as sequences of one-character strings so that   *)
(* prefix tests, trimming, splitting and address parsing are computed the  *)
(* way the standard library computes them.  A nil slice and an empty slice *)
(* are both the empty sequence; a nil pointer is the record Nil.           *)
(***************************************************************************)
EXTENDS Integers, Sequences, FiniteSets, TLC

VARIABLES pc, run, Domain, asked, ret, MXRecords, SPFRecord, DMARCRecord, DMARCPolicy, DNSSECInfo, DKIMInfo, Errors, RuleResults, firstRun

vars == <<pc, run, Domain, asked, ret, MXRecords, SPFRecord, DMARCRecord, DMARCPolicy, DNSSECInfo, DKIMInfo, Errors, RuleResults, firstRun>>

(***************************************************************************)
(* Bounds of the model.                                                    *)
(***************************************************************************)
\* longest free-form SPF term list drawn as a rule-engine input
MaxTerms == 2
\* longest run of include: terms drawn as a rule-engine input
MaxIncludes == 11
\* longest MX list drawn as a rule-engine input
MaxMX == 2

(***************************************************************************)
(* The nil pointer.                                                        *)
(***************************************************************************)
Nil == [nil |-> TRUE]

(***************************************************************************)
(* Go standard library: strings, bytes, net.                               *)
(***************************************************************************)
\* first index i >= from with s[i] = c, 0 if none
IndexFrom(s, c, from) == LET hits == {i \in from..Len(s) : s[i] = c} IN IF hits = {} THEN 0 ELSE CHOOSE i \in hits : \A j \in hits : i <= j

IndexByte(s, c) == IndexFrom(s, c, 1)

HasPrefix(s, prefix) == Len(s) >= Len(prefix) /\ SubSeq(s, 1, Len(prefix)) = prefix

HasSuffix(s, suffix) == Len(s) >= Len(suffix) /\ SubSeq(s, Len(s) - Len(suffix) + 1, Len(s)) = suffix

TrimSuffix(s, suffix) == IF HasSuffix(s, suffix) THEN SubSeq(s, 1, Len(s) - Len(suffix)) ELSE s

TrimPrefix(s, prefix) == IF HasPrefix(s, prefix) THEN SubSeq(s, Len(prefix) + 1, Len(s)) ELSE s

IsSpace(c) == c \in {" ", "\t", "\n", "\r"}

TrimSpace(s) == LET keep == {i \in 1..Len(s) : ~IsSpace(s[i])} IN IF keep = {} THEN <<>> ELSE LET lo == CHOOSE i \in keep : \A j \in keep : i <= j  hi == CHOOSE i \in keep : \A j \in keep : i >= j IN SubSeq(s, lo, hi)

UpperLetters == <<"A", "B", "C", "D", "E", "F", "G", "H", "I", "J", "K", "L", "M", "N", "O", "P", "Q", "R", "S", "T", "U", "V", "W", "X", "Y", "Z">>

LowerLetters == <<"a", "b", "c", "d", "e", "f", "g", "h", "i", "j", "k", "l", "m", "n", "o", "p", "q", "r", "s", "t", "u", "v", "w", "x", "y", "z">>

ToLowerChar(c) == LET i == IndexByte(UpperLetters, c) IN IF i = 0 THEN c ELSE LowerLetters[i]

ToLower(s) == [i \in 1..Len(s) |-> ToLowerChar(s[i])]

RECURSIVE Split(_, _)
\* strings.Split(s, sep) for a one-character separator
Split(s, sep) == LET i == IndexByte(s, sep) IN IF i = 0 THEN <<s>> ELSE <<SubSeq(s, 1, i - 1)>> \o Split(SubSeq(s, i + 1, Len(s)), sep)

\* strings.SplitN(s, sep, 2) for a one-character separator
SplitN2(s, sep) == LET i == IndexByte(s, sep) IN IF i = 0 THEN <<s>> ELSE <<SubSeq(s, 1, i - 1), SubSeq(s, i + 1, Len(s))>>

RECURSIVE Fields(_)
\* strings.Fields(s): the maximal runs of non-space characters
Fields(s) == LET t == TrimSpace(s) sp == {i \in 1..Len(t) : IsSpace(t[i])} IN IF t = <<>> THEN <<>> ELSE IF sp = {} THEN <<t>> ELSE LET i == CHOOSE k \in sp : \A j \in sp : k <= j IN <<SubSeq(t, 1, i - 1)>> \o Fields(SubSeq(t, i + 1, Len(t)))

RECURSIVE Concat(_)
\* strings.Join(parts, "")
Concat(parts) == IF parts = <<>> THEN <<>> ELSE Head(parts) \o Concat(Tail(parts))

RECURSIVE BytesCompare(_, _)
\* bytes.Compare: lexicographic, a proper prefix is the smaller
BytesCompare(a, b) == IF a = <<>> /\ b = <<>> THEN 0 ELSE IF a = <<>> THEN -1 ELSE IF b = <<>> THEN 1 ELSE IF Head(a) < Head(b) THEN -1 ELSE IF Head(a) > Head(b) THEN 1 ELSE BytesCompare(Tail(a), Tail(b))

DecDigits == <<"0", "1", "2", "3", "4", "5", "6", "7", "8", "9">>

HexDigits == <<"0", "1", "2", "3", "4", "5", "6", "7", "8", "9", "a", "b", "c", "d", "e", "f">>

DecVal(c) == IndexByte(DecDigits, c) - 1

HexVal(c) == IndexByte(HexDigits, ToLowerChar(c)) - 1

RECURSIVE ParseNum(_, _, _)
\* value of the digit string s in the given base, read left to right from acc
ParseNum(s, base, acc) == IF s = <<>> THEN acc ELSE ParseNum(Tail(s), base, acc * base + HexVal(Head(s)))

IsDecField(s) == /\ Len(s) \in 1..3
                 /\ \A i \in 1..Len(s) : DecVal(s[i]) >= 0
                 /\ (Len(s) > 1 => s[1] # "0")
                 /\ ParseNum(s, 10, 0) <= 255

IsHexGroup(s) == Len(s) \in 1..4 /\ \A i \in 1..Len(s) : HexVal(s[i]) >= 0

\* the 12-byte prefix of an IPv4 address in its 16-byte form (net.v4InV6Prefix)
v4InV6Prefix == <<0, 0, 0, 0, 0, 0, 0, 0, 0, 0, 255, 255>>

parseIPv4(s) == LET f == Split(s, ".") IN IF Len(f) = 4 /\ \A i \in 1..4 : IsDecField(f[i]) THEN v4InV6Prefix \o [i \in 1..4 |-> ParseNum(f[i], 10, 0)] ELSE <<>>

RECURSIVE GroupBytes(_)
GroupBytes(gs) == IF gs = <<>> THEN <<>> ELSE LET v == ParseNum(Head(gs), 16, 0) IN <<v \div 256, v % 256>> \o GroupBytes(Tail(gs))

Zeros(n) == [i \in 1..n |-> 0]

ColonGroups(s) == IF s = <<>> THEN <<>> ELSE Split(s, ":")

\* index of the first "::" of s, 0 if none
Ellipsis(s) == LET hits == {i \in 1..(Len(s) - 1) : s[i] = ":" /\ s[i + 1] = ":"} IN IF hits = {} THEN 0 ELSE CHOOSE i \in hits : \A j \in hits : i <= j

\* colon-hex IPv6 text with at most one "::" (no embedded dotted quad, no zone)
parseIPv6(s) == LET e == Ellipsis(s) IN IF e = 0 THEN (LET g == Split(s, ":") IN IF Len(g) = 8 /\ \A i \in 1..8 : IsHexGroup(g[i]) THEN GroupBytes(g) ELSE <<>>) ELSE (LET l == ColonGroups(SubSeq(s, 1, e - 1))  r == ColonGroups(SubSeq(s, e + 2, Len(s))) IN IF Len(l) + Len(r) <= 7 /\ (\A i \in 1..Len(l) : IsHexGroup(l[i])) /\ (\A i \in 1..Len(r) : IsHexGroup(r[i])) THEN GroupBytes(l) \o Zeros(2 * (8 - Len(l) - Len(r))) \o GroupBytes(r) ELSE <<>>)

\* net.ParseIP: always the 16-byte form, nil (the empty slice) if s is no address
ParseIP(s) == LET seps == {s[i] : i \in 1..Len(s)} \cap {".", ":"} IN IF seps = {"."} THEN parseIPv4(s) ELSE IF seps = {":"} THEN parseIPv6(s) ELSE <<>>

\* net.IP.To4: the 4-byte form of an IPv4 address, nil otherwise
To4(ip) == IF Len(ip) = 4 THEN ip ELSE IF Len(ip) = 16 /\ SubSeq(ip, 1, 12) = v4InV6Prefix THEN SubSeq(ip, 13, 16) ELSE <<>>

(***************************************************************************)
(* internal/mx: records.                                                   *)
(***************************************************************************)
Record(type, value) == [Type |-> type, Value |-> value]

MXRecord(host, priority, records) == [Host |-> host, Priority |-> priority, Records |-> records]

(***************************************************************************)
(* internal/dmarc: parseDMARCRecord, GetPolicy, parseDMARCUris.            *)
(***************************************************************************)
\* the tag names parseDMARCRecord and GetPolicy look up
Tag == [v |-> <<"v">>, p |-> <<"p">>, sp |-> <<"s", "p">>, pct |-> <<"p", "c", "t">>, rf |-> <<"r", "f">>, ri |-> <<"r", "i">>, fo |-> <<"f", "o">>, rua |-> <<"r", "u", "a">>, ruf |-> <<"r", "u", "f">>, adkim |-> <<"a", "d", "k", "i", "m">>, aspf |-> <<"a", "s", "p", "f">>]

s_DMARC1 == <<"D", "M", "A", "R", "C", "1">>

s_v_dmarc1 == <<"v", "=", "d", "m", "a", "r", "c", "1">>

s_r == <<"r">>

\* the map m with m[key] = value
MapSet(m, key, value) == [k \in DOMAIN m \cup {key} |-> IF k = key THEN value ELSE m[k]]

EmptyMap == [k \in {} |-> <<>>]

RECURSIVE parseDMARCParts(_, _)
\* the loop of parseDMARCRecord over the ";"-separated parts
parseDMARCParts(parts, record) == IF parts = <<>> THEN record ELSE LET part == TrimSpace(Head(parts))  kv == SplitN2(part, "=")  key == TrimSpace(kv[1])  value == TrimSpace(kv[2]) IN IF part = <<>> THEN parseDMARCParts(Tail(parts), record) ELSE IF Len(kv) # 2 THEN parseDMARCParts(Tail(parts), [record EXCEPT !.Valid = FALSE]) ELSE parseDMARCParts(Tail(parts), [record EXCEPT !.Version = IF key = Tag.v THEN value ELSE @, !.Valid = IF key = Tag.v /\ value # s_DMARC1 THEN FALSE ELSE @, !.Tags = MapSet(@, key, value)])

parseDMARCRecord(rawRecord, location) == LET record == parseDMARCParts(Split(rawRecord, ";"), [Raw |-> rawRecord, Version |-> <<>>, Tags |-> EmptyMap, Valid |-> TRUE, Location |-> location]) IN IF Tag.p \in DOMAIN record.Tags THEN record ELSE [record EXCEPT !.Valid = FALSE]

RECURSIVE parseDMARCUriItems(_)
parseDMARCUriItems(uris) == IF uris = <<>> THEN <<>> ELSE LET uri == TrimSpace(Head(uris)) IN (IF uri # <<>> THEN <<uri>> ELSE <<>>) \o parseDMARCUriItems(Tail(uris))

\* parseDMARCUris as it would be if the items were neither trimmed nor dropped when empty
parseDMARCUrisRaw(uriList) == Split(uriList, ",")

parseDMARCUris(uriList) == parseDMARCUriItems(Split(uriList, ","))

\* the digits fmt.Sscanf reads for %d: leading space skipped, an optional sign, then decimal digits
ScanSign(s) == IF s # <<>> /\ s[1] \in {"+", "-"} THEN 1 ELSE 0

ScanDigits(s) == LET stop == {i \in 1..Len(s) : DecVal(s[i]) < 0} IN IF stop = {} THEN s ELSE SubSeq(s, 1, (CHOOSE i \in stop : \A j \in stop : i <= j) - 1)

\* fmt.Sscanf(s, "%d", &x): x keeps old when no number is read (the texts of the
\* model carry at most nine digits, far below the 64-bit range of the conversion)
Sscanf(s, old) == LET t == TrimSpace(s)  sg == ScanSign(t)  d == ScanDigits(SubSeq(t, sg + 1, Len(t))) IN IF d = <<>> THEN old ELSE IF sg = 1 /\ t[1] = "-" THEN 0 - ParseNum(d, 10, 0) ELSE ParseNum(d, 10, 0)

TagOr(r, key, default) == IF key \in DOMAIN r.Tags THEN r.Tags[key] ELSE default

\* PolicyOf as it would be if the policy were read from the sp tag
PolicyOfSubdomain(r) == TagOr(r, Tag.sp, <<>>)

\* r.Tags["p"], the empty string if the tag is missing
PolicyOf(r) == TagOr(r, Tag.p, <<>>)

GetPolicy(r) == [Policy |-> PolicyOf(r), SubdomainPolicy |-> TagOr(r, Tag.sp, PolicyOf(r)), Percentage |-> IF Tag.pct \in DOMAIN r.Tags THEN Sscanf(r.Tags[Tag.pct], 100) ELSE 100, ReportFormat |-> TagOr(r, Tag.rf, <<>>), ReportInterval |-> IF Tag.ri \in DOMAIN r.Tags THEN Sscanf(r.Tags[Tag.ri], 86400) ELSE 86400, FailureReportingOption |-> TagOr(r, Tag.fo, <<>>), AggregateReportURI |-> IF Tag.rua \in DOMAIN r.Tags THEN parseDMARCUris(r.Tags[Tag.rua]) ELSE <<>>, ForensicReportURI |-> IF Tag.ruf \in DOMAIN r.Tags THEN parseDMARCUris(r.Tags[Tag.ruf]) ELSE <<>>, ADKIM |-> TagOr(r, Tag.adkim, s_r), ASPF |-> TagOr(r, Tag.aspf, s_r)]

\* the zero value of DMARCPolicy, the field of a DomainInfo whose DMARC lookup failed
ZeroPolicy == [Policy |-> <<>>, SubdomainPolicy |-> <<>>, Percentage |-> 0, ReportFormat |-> <<>>, ReportInterval |-> 0, FailureReportingOption |-> <<>>, AggregateReportURI |-> <<>>, ForensicReportURI |-> <<>>, ADKIM |-> <<>>, ASPF |-> <<>>]

(***************************************************************************)
(* internal/rules: the findings.                                           *)
(***************************************************************************)
RuleResult(id, description, status, text, args) == [RuleID |-> id, Description |-> description, Status |-> status, Message |-> [text |-> text, args |-> args]]

\* the sequences that list every element of the set S once: the orders in which a
\* range over a Go map with key set S can visit its keys
Orders(S) == {o \in [1..Cardinality(S) -> S] : \A i, j \in 1..Cardinality(S) : o[i] = o[j] => i = j}

(***************************************************************************)
(* internal/rules/spf_rules.go                                             *)
(***************************************************************************)
s_ptr == <<"p", "t", "r">>

s_include == <<"i", "n", "c", "l", "u", "d", "e", ":">>

s_minus_all == <<"-", "a", "l", "l">>

s_tilde_all == <<"~", "a", "l", "l">>

s_plus_all == <<"+", "a", "l", "l">>

s_all == <<"a", "l", "l">>

\* the status CheckSPFPtrUsage gives a record that uses ptr
PtrStatus == "warning"

CheckSPFPtrUsage(spf) == IF spf = Nil THEN <<>> ELSE IF \E i \in 1..Len(spf.Terms) : HasPrefix(spf.Terms[i], s_ptr) \/ spf.Terms[i] = s_ptr THEN <<RuleResult(1, "SPF record uses deprecated ptr: mechanism", PtrStatus, "The ptr: mechanism in SPF records is deprecated due to performance issues and should be avoided", <<>>)>> ELSE <<RuleResult(1, "SPF record doesn't use deprecated ptr: mechanism", "pass", "No ptr: mechanism found in SPF record", <<>>)>>

IsInclude(term) == HasPrefix(term, s_include)

\* the number of include: terms above which CheckSPFIncludeLimit fails
IncludeLimit == 10

CheckSPFIncludeLimit(spf) == IF spf = Nil THEN <<>> ELSE LET includeCount == Len(SelectSeq(spf.Terms, IsInclude)) IN IF includeCount > IncludeLimit THEN <<RuleResult(2, "SPF record has too many include mechanisms", "fail", "SPF record contains more than 10 include mechanisms. Consider using SPF flattening to reduce lookup complexity.", <<>>)>> ELSE <<RuleResult(2, "SPF record include count is acceptable", "pass", "SPF record contains %d include mechanisms (limit is 10)", <<includeCount>>)>>

\* ProperAll as it would be if +all were taken for a restrictive qualifier
ProperAllPermissive == {s_minus_all, s_tilde_all, s_plus_all}

\* the terms that set hasProperAll
ProperAll == {s_minus_all, s_tilde_all}

\* the terms that set hasPositiveAll
PositiveAll == {s_plus_all, s_all}

IsAllTerm(term) == TrimSpace(term) \in ProperAll \cup PositiveAll

\* FirstAll as it would be if the scan ran to the end and the last match decided
LastAll(terms) == LET hits == SelectSeq(terms, IsAllTerm) IN IF hits = <<>> THEN <<>> ELSE TrimSpace(hits[Len(hits)])

\* the term at which the scan of CheckSPFAllMechanism breaks, <<>> if it runs to the end
FirstAll(terms) == LET hits == SelectSeq(terms, IsAllTerm) IN IF hits = <<>> THEN <<>> ELSE TrimSpace(Head(hits))

CheckSPFAllMechanism(spf) == IF spf = Nil THEN <<>> ELSE LET term == FirstAll(spf.Terms)  hasProperAll == term \in ProperAll  hasPositiveAll == term \notin ProperAll /\ term \in PositiveAll IN IF hasPositiveAll THEN <<RuleResult(3, "SPF record uses +all", "fail", "SPF record uses +all which allows any server to send mail for your domain. Use -all or ~all instead.", <<>>)>> ELSE IF hasProperAll THEN <<RuleResult(3, "SPF record uses proper all qualifier", "pass", "SPF record properly uses -all or ~all to restrict unauthorized senders.", <<>>)>> ELSE <<RuleResult(3, "SPF record missing all mechanism", "fail", "SPF record doesn't have an 'all' mechanism. Add -all or ~all at the end of your SPF record.", <<>>)>>

\* CheckSPFExists as it would be if a missing record were only a warning
CheckSPFExistsLenient(spf) == IF spf = Nil THEN <<RuleResult(6, "SPF record existence", "warn", "No SPF record was found for this domain.", <<>>)>> ELSE <<RuleResult(6, "SPF record existence", "pass", "SPF record exists for this domain.", <<>>)>>

CheckSPFExists(spf) == IF spf = Nil THEN <<RuleResult(6, "SPF record existence", "fail", "No SPF record was found for this domain. SPF is important for preventing email spoofing. Add an SPF record to specify which servers are authorized to send email for your domain.", <<>>)>> ELSE <<RuleResult(6, "SPF record existence", "pass", "SPF record exists for this domain.", <<>>)>>

(***************************************************************************)
(* DMARC rules                                                             *)
(***************************************************************************)
s_reject == <<"r", "e", "j", "e", "c", "t">>

s_quarantine == <<"q", "u", "a", "r", "a", "n", "t", "i", "n", "e">>

s_none == <<"n", "o", "n", "e">>

CheckDMARCPolicy(record, policy) == IF record = Nil THEN <<>> ELSE LET policyValue == policy.Policy IN IF policyValue = s_reject THEN <<RuleResult(4, "DMARC policy set to reject", "pass", "DMARC policy is set to 'reject', which provides the strongest protection against email spoofing.", <<>>)>> ELSE IF policyValue = s_quarantine THEN <<RuleResult(4, "DMARC policy set to quarantine", "warn", "DMARC policy is set to 'quarantine'. Consider upgrading to 'reject' for stronger protection once you've verified legitimate emails are passing authentication.", <<>>)>> ELSE IF policyValue = s_none THEN <<RuleResult(4, "DMARC policy set to none", "fail", "DMARC policy is set to 'none', which only monitors but doesn't protect against spoofing. Consider upgrading to 'quarantine' or ideally 'reject'.", <<>>)>> ELSE <<RuleResult(4, "DMARC policy not found or invalid", "fail", "No valid DMARC policy (p tag) was found. Ensure your DMARC record includes a valid p=reject, p=quarantine, or p=none tag.", <<>>)>>

\* CheckDMARCExists as it would be if an invalid record counted as missing
CheckDMARCExistsValid(record) == IF record = Nil \/ ~record.Valid THEN <<RuleResult(5, "DMARC record existence", "fail", "No DMARC record was found for this domain.", <<>>)>> ELSE <<RuleResult(5, "DMARC record existence", "pass", "DMARC record exists for this domain.", <<>>)>>

CheckDMARCExists(record) == IF record = Nil THEN <<RuleResult(5, "DMARC record existence", "fail", "No DMARC record was found for this domain. DMARC is essential for preventing email spoofing. Add a DMARC record with p=reject or at least p=quarantine.", <<>>)>> ELSE <<RuleResult(5, "DMARC record existence", "pass", "DMARC record exists for this domain.", <<>>)>>

(***************************************************************************)
(* internal/rules/dkim_rules.go                                            *)
(***************************************************************************)
\* CheckDKIMExists as it would be if discovered selectors alone decided the finding
CheckDKIMExistsBySelectors(dkim) == IF dkim # Nil /\ dkim.HasSelectors THEN <<RuleResult(7, "DKIM record existence", "pass", "DKIM records found for this domain with selectors: %s", <<dkim.Selectors>>)>> ELSE <<RuleResult(7, "DKIM record existence", "fail", "No DKIM _domainkey record was found. DKIM helps prevent email spoofing. Configure DKIM with your email service provider.", <<>>)>>

CheckDKIMExists(dkim) == IF dkim = Nil THEN <<RuleResult(7, "DKIM record existence", "info", "DKIM status could not be determined. DKIM uses selectors that vary by email provider. Ensure DKIM is configured with your email service provider.", <<>>)>> ELSE IF dkim.HasDomainKey /\ dkim.ResponseCode = "NOERROR" THEN (IF dkim.HasSelectors THEN <<RuleResult(7, "DKIM record existence", "pass", "DKIM records found for this domain with selectors: %s", <<dkim.Selectors>>)>> ELSE <<RuleResult(7, "DKIM record existence", "warn", "Domain has _domainkey record but no common selectors were found. Ensure DKIM is properly configured with your email provider.", <<>>)>>) ELSE <<RuleResult(7, "DKIM record existence", "fail", "No DKIM _domainkey record was found. DKIM helps prevent email spoofing. Configure DKIM with your email service provider.", <<>>)>>

(***************************************************************************)
(* internal/rules/dnssec_rules.go: DNSSEC and MX rules                     *)
(***************************************************************************)
CheckDNSSECEnabled(dnssec) == IF dnssec = Nil THEN <<RuleResult(8, "DNSSEC enabled", "info", "DNSSEC status could not be determined. DNSSEC adds an additional layer of security to DNS lookups.", <<>>)>> ELSE IF dnssec.Enabled THEN <<RuleResult(8, "DNSSEC enabled", "pass", "DNSSEC is enabled for this domain, providing additional security for DNS lookups.", <<>>)>> ELSE <<RuleResult(8, "DNSSEC enabled", "warn", "DNSSEC is not enabled for this domain. Consider enabling DNSSEC to protect against DNS spoofing attacks.", <<>>)>>

CheckMXExists(mxs) == IF Len(mxs) = 0 THEN <<RuleResult(9, "MX record existence", "warn", "No MX records found. If this domain is used for email, add MX records to specify mail servers.", <<>>)>> ELSE <<RuleResult(9, "MX record existence", "pass", "Found %d MX records for this domain.", <<Len(mxs)>>)>>

HostsOf(mxs) == [i \in 1..Len(mxs) |-> mxs[i].Host]

HasNoRecords(mx) == Len(mx.Records) = 0

CheckMXHasIPs(mxs) == IF Len(mxs) = 0 THEN <<>> ELSE LET badMXHosts == HostsOf(SelectSeq(mxs, HasNoRecords)) IN IF Len(badMXHosts) > 0 THEN <<RuleResult(10, "MX records have IP addresses", "warn", "The following MX hosts could not be resolved to IP addresses: %s", <<badMXHosts>>)>> ELSE <<RuleResult(10, "MX records have IP addresses", "pass", "All MX records resolve to valid IP addresses.", <<>>)>>

HasNoIPv6(mx) == ~\E i \in 1..Len(mx.Records) : mx.Records[i].Type = "AAAA"

CheckMXHasIPv6(mxs) == IF Len(mxs) = 0 THEN <<>> ELSE LET badMXHosts == HostsOf(SelectSeq(mxs, HasNoIPv6)) IN IF Len(badMXHosts) > 0 THEN <<RuleResult(11, "MX records have IPv6 addresses", "warn", "The following MX hosts could not be resolved to IPv6 addresses: %s", <<badMXHosts>>)>> ELSE <<RuleResult(11, "MX records have IPv6 addresses", "pass", "All MX records resolve to IPv6 addresses.", <<>>)>>

CheckMXRedundancy(mxs) == IF Len(mxs) = 0 THEN <<>> ELSE IF Len(mxs) = 1 THEN <<RuleResult(12, "MX record redundancy", "warn", "Only one MX record found. For better email reliability, consider adding at least one backup MX server.", <<>>)>> ELSE <<RuleResult(12, "MX record redundancy", "pass", "Found %d MX records, which provides redundancy for email delivery.", <<Len(mxs)>>)>>

maxRecommendedMX == 5

\* CheckMXTooMany as it would be if it reported only a list that is too long
CheckMXTooManyQuiet(mxs) == IF Len(mxs) > maxRecommendedMX THEN <<RuleResult(13, "MX record count", "warn", "Found %d MX records, which is more than the recommended maximum of %d. Too many MX records may indicate a misconfiguration.", <<Len(mxs), maxRecommendedMX>>)>> ELSE <<>>

CheckMXTooMany(mxs) == IF Len(mxs) = 0 THEN <<>> ELSE IF Len(mxs) > maxRecommendedMX THEN <<RuleResult(13, "MX record count", "warn", "Found %d MX records, which is more than the recommended maximum of %d. Too many MX records may indicate a misconfiguration.", <<Len(mxs), maxRecommendedMX>>)>> ELSE <<RuleResult(13, "MX record count", "pass", "Found %d MX records, which is within the recommended range (1-%d).", <<Len(mxs), maxRecommendedMX>>)>>

localhostPatterns == {<<"l", "o", "c", "a", "l", "h", "o", "s", "t">>, <<"1", "2", "7", ".", "0", ".", "0", ".", "1">>, <<":", ":", "1">>, <<"0", ".", "0", ".", "0", ".", "0">>}

IsLocalhostMX(mx) == \/ ToLower(mx.Host) \in localhostPatterns
                     \/ \E i \in 1..Len(mx.Records) : mx.Records[i].Type \in {"A", "AAAA"} /\ mx.Records[i].Value \in localhostPatterns

CheckMXLocalhost(mxs) == IF Len(mxs) = 0 THEN <<>> ELSE LET badMXs == HostsOf(SelectSeq(mxs, IsLocalhostMX)) IN IF Len(badMXs) > 0 THEN <<RuleResult(14, "MX localhost check", "fail", "Found %d MX records pointing to localhost or loopback addresses: %s. This is a misconfiguration that will prevent email delivery.", <<Len(badMXs), badMXs>>)>> ELSE <<RuleResult(14, "MX localhost check", "pass", "No MX records pointing to localhost found.", <<>>)>>

\* the table of isPrivateIP, as written
privateRangeTexts == <<<<<<"1", "0", ".", "0", ".", "0", ".", "0">>, <<"1", "0", ".", "2", "5", "5", ".", "2", "5", "5", ".", "2", "5", "5">>>>, <<<<"1", "7", "2", ".", "1", "6", ".", "0", ".", "0">>, <<"1", "7", "2", ".", "3", "1", ".", "2", "5", "5", ".", "2", "5", "5">>>>, <<<<"1", "9", "2", ".", "1", "6", "8", ".", "0", ".", "0">>, <<"1", "9", "2", ".", "1", "6", "8", ".", "2", "5", "5", ".", "2", "5", "5">>>>, <<<<"1", "2", "7", ".", "0", ".", "0", ".", "0">>, <<"1", "2", "7", ".", "2", "5", "5", ".", "2", "5", "5", ".", "2", "5", "5">>>>, <<<<"1", "6", "9", ".", "2", "5", "4", ".", "0", ".", "0">>, <<"1", "6", "9", ".", "2", "5", "4", ".", "2", "5", "5", ".", "2", "5", "5">>>>, <<<<"f", "c", "0", "0", ":", ":">>, <<"f", "d", "f", "f", ":", "f", "f", "f", "f", ":", "f", "f", "f", "f", ":", "f", "f", "f", "f", ":", "f", "f", "f", "f", ":", "f", "f", "f", "f", ":", "f", "f", "f", "f", ":", "f", "f", "f", "f">>>>, <<<<"f", "e", "8", "0", ":", ":">>, <<"f", "e", "b", "f", ":", "f", "f", "f", "f", ":", "f", "f", "f", "f", ":", "f", "f", "f", "f", ":", "f", "f", "f", "f", ":", "f", "f", "f", "f", ":", "f", "f", "f", "f", ":", "f", "f", "f", "f">>>>>>

\* a range of the table: each bound is what net.ParseIP returns for its text
Range(first, last) == [start |-> ParseIP(first), end |-> ParseIP(last)]

privateRanges == [k \in 1..Len(privateRangeTexts) |-> Range(privateRangeTexts[k][1], privateRangeTexts[k][2])]

isPrivateIP(parsed) == LET v4 == To4(parsed)  ip == IF v4 # <<>> THEN v4 ELSE parsed IN \E k \in 1..Len(privateRanges) : /\ (To4(ip) = <<>>) = (To4(privateRanges[k].start) = <<>>)
                                                                                                                        /\ BytesCompare(ip, privateRanges[k].start) >= 0
                                                                                                                        /\ BytesCompare(ip, privateRanges[k].end) <= 0

IsPrivateRecord(record) == LET parsedIP == ParseIP(record.Value) IN record.Type \in {"A", "AAAA"} /\ parsedIP # <<>> /\ isPrivateIP(parsedIP)

\* the privateIPs slice CheckMXPrivateIPs builds for one MX record
PrivateIPsOf(mx) == LET hit == SelectSeq(mx.Records, IsPrivateRecord) IN [i \in 1..Len(hit) |-> hit[i].Value]

RECURSIVE PrivateIPMap(_, _)
\* the map mxWithPrivateIPs after the loop over the MX records: a later record
\* with the same host replaces the entry of an earlier one
PrivateIPMap(mxs, m) == IF mxs = <<>> THEN m ELSE PrivateIPMap(Tail(mxs), IF Len(PrivateIPsOf(Head(mxs))) > 0 THEN MapSet(m, Head(mxs).Host, PrivateIPsOf(Head(mxs))) ELSE m)

\* the findings CheckMXPrivateIPs can append: the detail lines follow the iteration
\* order of the map, which Go leaves unspecified
CheckMXPrivateIPs(mxs) == IF Len(mxs) = 0 THEN {<<>>} ELSE LET mxWithPrivateIPs == PrivateIPMap(mxs, EmptyMap) IN IF Cardinality(DOMAIN mxWithPrivateIPs) > 0 THEN {<<RuleResult(15, "MX private IP check", "fail", "Found %d MX records resolving to private IP addresses. %s", <<Cardinality(DOMAIN mxWithPrivateIPs), [i \in 1..Len(o) |-> [host |-> o[i], ips |-> mxWithPrivateIPs[o[i]]]]>>)>> : o \in Orders(DOMAIN mxWithPrivateIPs)} ELSE {<<RuleResult(15, "MX private IP check", "pass", "No MX records resolving to private IP addresses found.", <<>>)>>}

(***************************************************************************)
(* The resolver collaborator.  A response of dns.Client.Exchange is a      *)
(* record Resp(err, rcode, answer); a response of the system resolver      *)
(* (net.LookupTXT, net.LookupMX) is a record Sys(err, answer).  The value   *)
(* of an A or AAAA answer is the text its String method prints.            *)
(***************************************************************************)
Resp(err, rcode, answer) == [err |-> err, rcode |-> rcode, answer |-> answer]

Sys(err, answer) == [err |-> err, answer |-> answer]

Ret(val, err) == [val |-> val, err |-> err]

ExchangeFailed == Resp(TRUE, "", <<>>)

TXT(chunks) == [type |-> "TXT", txt |-> chunks]

MX(host, pref) == [type |-> "MX", mx |-> host, pref |-> pref]

RR(type, value) == [type |-> type, value |-> value]

OfType(answer, type) == SelectSeq(answer, LAMBDA rr : rr.type = type)

(***************************************************************************)
(* internal/mx/mx.go                                                       *)
(***************************************************************************)
s_dot == <<".">>

RECURSIVE Insert(_, _)
\* r put into the priority-sorted list s behind every record that does not come after it
Insert(s, r) == IF s = <<>> THEN <<r>> ELSE IF r.Priority < Head(s).Priority THEN <<r>> \o s ELSE <<Head(s)>> \o Insert(Tail(s), r)

\* SortByPriority as it would be if the list were left in answer order
AnswerOrder(records) == records

RECURSIVE SortByPriority(_)
\* sort.Slice by Priority, lowest first, as the insertion sort Go runs on short slices
SortByPriority(records) == IF records = <<>> THEN <<>> ELSE Insert(SortByPriority(SubSeq(records, 1, Len(records) - 1)), records[Len(records)])

ValuesOf(answer, type) == LET rs == OfType(answer, type) IN [i \in 1..Len(rs) |-> Record(type, IF type = "CNAME" THEN TrimSuffix(rs[i].value, s_dot) ELSE rs[i].value)]

\* resolveMXHost with the responses q.cname, q.a and q.aaaa to its three queries
resolveMXHost(q) == IF q.a.err THEN Ret(<<>>, "DNS A record query failed") ELSE IF q.a.rcode # "NOERROR" THEN Ret(<<>>, "DNS A record query returned non-success code") ELSE Ret((IF ~q.cname.err /\ q.cname.rcode = "NOERROR" THEN ValuesOf(q.cname.answer, "CNAME") ELSE <<>>) \o ValuesOf(q.a.answer, "A") \o (IF ~q.aaaa.err /\ q.aaaa.rcode = "NOERROR" THEN ValuesOf(q.aaaa.answer, "AAAA") ELSE <<>>), "")

\* LookupMX with the response r to the MX query and the responses hostq[host] to the queries for each host
LookupMX(r, hostq) == IF r.err THEN Ret(<<>>, "DNS query failed") ELSE IF r.rcode # "NOERROR" THEN Ret(<<>>, "DNS query returned non-success code") ELSE LET mxs == OfType(r.answer, "MX") IN Ret(SortByPriority([i \in 1..Len(mxs) |-> LET host == TrimSuffix(mxs[i].mx, s_dot)  resolved == resolveMXHost(hostq[host]) IN MXRecord(host, mxs[i].pref, IF resolved.err = "" THEN resolved.val ELSE <<>>)]), "")

\* LookupMXWithFallback; sys is the answer of net.LookupMX
\* LookupMXWithFallback as it would be if the fallback path resolved each host
LookupMXWithFallbackResolved(r, hostq, sys) == LET first == LookupMX(r, hostq) IN IF first.err = "" /\ Len(first.val) > 0 THEN first ELSE IF sys.err THEN Ret(<<>>, "MX lookup failed") ELSE LookupMX(Resp(FALSE, "NOERROR", sys.answer), hostq)

LookupMXWithFallback(r, hostq, sys) == LET first == LookupMX(r, hostq) IN IF first.err = "" /\ Len(first.val) > 0 THEN first ELSE IF sys.err THEN Ret(<<>>, "MX lookup failed") ELSE Ret(SortByPriority([i \in 1..Len(sys.answer) |-> MXRecord(TrimSuffix(sys.answer[i].mx, s_dot), sys.answer[i].pref, <<>>)]), "")

(***************************************************************************)
(* internal/spf                                                            *)
(***************************************************************************)
s_v_spf1 == <<"v", "=", "s", "p", "f", "1">>

s_v_eq == <<"v", "=">>

SPFRecordOf(txt) == LET terms == Fields(txt) IN [Raw |-> txt, Version |-> TrimPrefix(terms[1], s_v_eq), Terms |-> Tail(terms)]

IsSPF(txt) == HasPrefix(ToLower(txt), s_v_spf1)

\* the texts of the TXT records of an answer, chunks joined
TxtValues(answer) == LET rs == OfType(answer, "TXT") IN [i \in 1..Len(rs) |-> Concat(rs[i].txt)]

LookupSPF(r) == IF r.err THEN Ret(Nil, "DNS query failed") ELSE IF r.rcode # "NOERROR" THEN Ret(Nil, "DNS query returned non-success code") ELSE LET hits == SelectSeq(TxtValues(r.answer), IsSPF) IN IF hits # <<>> THEN Ret(SPFRecordOf(Head(hits)), "") ELSE Ret(Nil, "no SPF record found for domain")

\* LookupSPFWithFallback; sys is the answer of net.LookupTXT
LookupSPFWithFallback(r, sys) == LET first == LookupSPF(r) IN IF first.err = "" THEN first ELSE IF sys.err THEN Ret(Nil, "TXT lookup failed") ELSE LET hits == SelectSeq(sys.answer, IsSPF) IN IF hits # <<>> THEN Ret(SPFRecordOf(Head(hits)), "") ELSE Ret(Nil, "no SPF record found for domain")

(***************************************************************************)
(* internal/dmarc/dmarc.go: the lookups                                    *)
(***************************************************************************)
s_dmarc_label == <<"_", "d", "m", "a", "r", "c", ".">>

IsDMARC(txt) == HasPrefix(ToLower(txt), s_v_dmarc1)

LookupDMARC(domain, r) == IF r.err THEN Ret(Nil, "DNS query failed") ELSE IF r.rcode # "NOERROR" THEN Ret(Nil, "DNS query returned non-success code") ELSE LET hits == SelectSeq(TxtValues(r.answer), IsDMARC) IN IF hits # <<>> THEN Ret(parseDMARCRecord(Head(hits), s_dmarc_label \o domain), "") ELSE Ret(Nil, "no DMARC record found for domain")

\* OrgDomain as it would be if the last three labels were kept
OrgDomainThree(parts) == parts[Len(parts) - 2] \o s_dot \o parts[Len(parts) - 1] \o s_dot \o parts[Len(parts)]

\* the last two labels of a domain split into parts
OrgDomain(parts) == parts[Len(parts) - 1] \o s_dot \o parts[Len(parts)]

\* LookupDMARCWithFallback calls itself for the organizational domain: the primary
\* lookup and net.LookupTXT both failed and the domain has more than two labels
RetriesOrgDomain(domain, q, sys) == LookupDMARC(domain, q[domain]).err # "" /\ sys[domain].err /\ Len(Split(domain, ".")) > 2

\* what LookupDMARCWithFallback returns when it does not call itself
LookupDMARCWithFallbackReturn(domain, q, sys) == LET first == LookupDMARC(domain, q[domain])  hits == SelectSeq(sys[domain].answer, IsDMARC) IN IF first.err = "" THEN first ELSE IF sys[domain].err THEN Ret(Nil, "DMARC TXT lookup failed") ELSE IF hits # <<>> THEN Ret(parseDMARCRecord(Head(hits), s_dmarc_label \o domain), "") ELSE Ret(Nil, "no DMARC record found for domain")

RECURSIVE LookupDMARCWithFallback(_, _, _)
\* LookupDMARCWithFallback; q[d] and sys[d] are the answers of the nameserver and of
\* net.LookupTXT for _dmarc.d
LookupDMARCWithFallback(domain, q, sys) == IF RetriesOrgDomain(domain, q, sys) THEN LookupDMARCWithFallback(OrgDomain(Split(domain, ".")), q, sys) ELSE LookupDMARCWithFallbackReturn(domain, q, sys)

(***************************************************************************)
(* internal/dnssec                                                         *)
(***************************************************************************)
RECURSIVE LatestExp(_, _)
\* the latest expiration among the RRSIG answers; <<>> is the zero time
LatestExp(sigs, last) == IF sigs = <<>> THEN last ELSE LatestExp(Tail(sigs), IF last = <<>> \/ Head(sigs).value > last[1] THEN <<Head(sigs).value>> ELSE last)

\* the DNSSECInfo CheckDNSSEC has filled once the DNSKEY answers are processed
AfterDNSKEY(domain, r) == LET keys == OfType(r.answer, "DNSKEY") IN [Domain |-> domain, Enabled |-> Len(keys) > 0, HasDNSKEY |-> Len(keys) > 0, HasDS |-> FALSE, KeyCount |-> Len(keys), Algorithm |-> [i \in 1..Len(keys) |-> keys[i].value.alg], KeyTags |-> [i \in 1..Len(keys) |-> keys[i].value.tag], LastSignatureExp |-> LatestExp(OfType(r.answer, "RRSIG"), <<>>), Error |-> ""]

NewDNSSECInfo(domain) == [Domain |-> domain, Enabled |-> FALSE, HasDNSKEY |-> FALSE, HasDS |-> FALSE, KeyCount |-> 0, Algorithm |-> <<>>, KeyTags |-> <<>>, LastSignatureExp |-> <<>>, Error |-> ""]

\* CheckDNSSEC with the responses q.dnskey and q.ds of one nameserver
CheckDNSSEC(domain, q) == IF q.dnskey.err THEN Ret([NewDNSSECInfo(domain) EXCEPT !.Error = "DNS query failed"], "exchange failed") ELSE IF q.ds.err THEN Ret([AfterDNSKEY(domain, q.dnskey) EXCEPT !.Error = "DS record query failed"], "exchange failed") ELSE Ret([AfterDNSKEY(domain, q.dnskey) EXCEPT !.HasDS = Len(q.ds.answer) > 0, !.Enabled = @ \/ Len(q.ds.answer) > 0], "")

\* the record types CheckDNSSEC queries: DNSKEY, then, unless that exchange failed, DS
CheckDNSSECQueries(domain, q) == <<"DNSKEY">> \o (IF q.dnskey.err THEN <<>> ELSE <<"DS">>)

\* CheckDNSSECWithFallback as it would be if the second attempt went on from the
\* query that failed and kept what the first attempt had found
CheckDNSSECWithFallbackResumed(domain, q, q2) == IF CheckDNSSEC(domain, q).err = "" THEN CheckDNSSEC(domain, q) ELSE CheckDNSSEC(domain, [dnskey |-> IF q.dnskey.err THEN q2.dnskey ELSE q.dnskey, ds |-> q2.ds])

\* CheckDNSSECWithFallback; q2 are the responses of 8.8.4.4
CheckDNSSECWithFallback(domain, q, q2) == IF CheckDNSSEC(domain, q).err = "" THEN CheckDNSSEC(domain, q) ELSE CheckDNSSEC(domain, q2)

\* the queries of CheckDNSSECWithFallback, each with the server it was sent to
CheckDNSSECWithFallbackQueries(domain, q, q2) == [i \in 1..Len(CheckDNSSECQueries(domain, q)) |-> [server |-> "nameserver", name |-> CheckDNSSECQueries(domain, q)[i]]] \o (IF CheckDNSSEC(domain, q).err = "" THEN <<>> ELSE [i \in 1..Len(CheckDNSSECQueries(domain, q2)) |-> [server |-> "8.8.4.4:53", name |-> CheckDNSSECQueries(domain, q2)[i]]])

(***************************************************************************)
(* internal/dkim                                                           *)
(***************************************************************************)
CommonSelectors == <<"default", "dkim", "mail", "email", "k1", "selector1", "selector2", "google", "zoho", "mx", "key", "mta", "pm", "dkim-smtp", "s1", "s2">>

SelectorFound(r) == ~r.err /\ r.rcode = "NOERROR" /\ Len(r.answer) > 0

\* the selectors queried and those recorded before the selector loop starts
NoProbe == [queried |-> <<>>, found |-> <<>>]

RECURSIVE ProbeUntilHit(_, _, _)
\* ProbeSelectors as it would be if the loop stopped at the first selector found
ProbeUntilHit(selectors, answers, probe) == IF selectors = <<>> \/ probe.found # <<>> THEN probe ELSE ProbeUntilHit(Tail(selectors), answers, [queried |-> Append(probe.queried, Head(selectors)), found |-> IF SelectorFound(answers[Head(selectors)]) THEN Append(probe.found, Head(selectors)) ELSE probe.found])

RECURSIVE ProbeSelectors(_, _, _)
\* the selector loop of CheckDKIM: every selector is queried, in order, and those
\* answered with NOERROR and at least one record are appended to the found list
ProbeSelectors(selectors, answers, probe) == IF selectors = <<>> THEN probe ELSE ProbeSelectors(Tail(selectors), answers, [queried |-> Append(probe.queried, Head(selectors)), found |-> IF SelectorFound(answers[Head(selectors)]) THEN Append(probe.found, Head(selectors)) ELSE probe.found])

\* the names CheckDKIM queries: _domainkey.<domain>, then, unless that exchange
\* failed, <selector>._domainkey.<domain> for the selectors of the loop
CheckDKIMQueries(domain, q) == <<"_domainkey">> \o (IF q.domainkey.err THEN <<>> ELSE ProbeSelectors(CommonSelectors, q.selector, NoProbe).queried)

\* CheckDKIM with the response q.domainkey for _domainkey.<domain> and the responses
\* q.selector[s] for each selector s, all of one nameserver
CheckDKIM(domain, q) == IF q.domainkey.err THEN Ret([Domain |-> domain, HasDomainKey |-> FALSE, HasSelectors |-> FALSE, Selectors |-> <<>>, ResponseCode |-> "", Error |-> "DNS query failed"], "exchange failed") ELSE LET found == ProbeSelectors(CommonSelectors, q.selector, NoProbe).found IN Ret([Domain |-> domain, HasDomainKey |-> q.domainkey.rcode = "NOERROR", HasSelectors |-> Len(found) > 0, Selectors |-> found, ResponseCode |-> q.domainkey.rcode, Error |-> ""], "")

\* CheckDKIMWithFallback; q2 are the responses of 8.8.4.4
CheckDKIMWithFallback(domain, q, q2) == IF CheckDKIM(domain, q).err = "" THEN CheckDKIM(domain, q) ELSE CheckDKIM(domain, q2)

\* the queries of CheckDKIMWithFallback, each with the server it was sent to
CheckDKIMWithFallbackQueries(domain, q, q2) == [i \in 1..Len(CheckDKIMQueries(domain, q)) |-> [server |-> "nameserver", name |-> CheckDKIMQueries(domain, q)[i]]] \o (IF CheckDKIM(domain, q).err = "" THEN <<>> ELSE [i \in 1..Len(CheckDKIMQueries(domain, q2)) |-> [server |-> "8.8.4.4:53", name |-> CheckDKIMQueries(domain, q2)[i]]])

(***************************************************************************)
(* internal/dns: CollectDNSInfo, one action per category lookup.  The      *)
(* answers of the resolvers are drawn from the sets below.                 *)
(***************************************************************************)
d_sub == <<"m", ".", "e", "x", ".", "i", "o">>

d_org == <<"e", "x", ".", "i", "o">>

Domains == {d_sub, d_org}

h_a == <<"a", ".", "i", "o">>

h_b == <<"b", ".", "i", "o">>

Hosts == {h_a, h_b}

NoAnswer == Resp(FALSE, "NOERROR", <<>>)

NXDomain == Resp(FALSE, "NXDOMAIN", <<>>)

Answer(rrs) == Resp(FALSE, "NOERROR", rrs)

MXAnswers == {ExchangeFailed, NXDomain, NoAnswer, Answer(<<MX(h_b \o s_dot, 20), RR("RRSIG", 7), MX(h_a \o s_dot, 10)>>)}

HostFails == [cname |-> ExchangeFailed, a |-> ExchangeFailed, aaaa |-> ExchangeFailed]

HostPublic == [cname |-> NXDomain, a |-> Answer(<<RR("A", <<"8", ".", "8", ".", "8", ".", "8">>)>>), aaaa |-> Answer(<<RR("AAAA", <<"2", "0", "0", "1", ":", "d", "b", "8", ":", ":", "1">>)>>)]

HostPrivate == [cname |-> Answer(<<RR("CNAME", <<"c", ".", "i", "o", ".">>)>>), a |-> Answer(<<RR("A", <<"1", "0", ".", "0", ".", "0", ".", "5">>)>>), aaaa |-> ExchangeFailed]

\* the responses to the queries resolveMXHost sends for each host
HostAnswers == {[h \in Hosts |-> IF h = h_a THEN HostPublic ELSE HostFails], [h \in Hosts |-> IF h = h_a THEN HostPrivate ELSE HostPublic], [h \in Hosts |-> HostPrivate]}

SysMXAnswers == {Sys(TRUE, <<>>), Sys(FALSE, <<>>), Sys(FALSE, <<MX(h_b \o s_dot, 5), MX(h_a \o s_dot, 1)>>)}

t_spf_strict == <<"v", "=", "s", "p", "f", "1", " ", "i", "n", "c", "l", "u", "d", "e", ":", "a", ".", "i", "o", " ", "-", "a", "l", "l">>

t_spf_open == <<"V", "=", "S", "P", "F", "1", " ", " ", "p", "t", "r", " ", "+", "a", "l", "l">>

t_other == <<"g", "o", "o", "g", "l", "e", "-", "s", "i", "t", "e", "-", "v", "e", "r", "i", "f", "i", "c", "a", "t", "i", "o", "n", "=", "x">>

SPFAnswers == {ExchangeFailed, NXDomain, Answer(<<TXT(<<t_other>>)>>), Answer(<<TXT(<<t_other>>), TXT(<<SubSeq(t_spf_strict, 1, 9), SubSeq(t_spf_strict, 10, Len(t_spf_strict))>>)>>)}

SysTXTAnswers == {Sys(TRUE, <<>>), Sys(FALSE, <<t_other>>), Sys(FALSE, <<t_spf_open>>)}

t_dmarc_reject == <<"v", "=", "D", "M", "A", "R", "C", "1", ";", " ", "p", "=", "r", "e", "j", "e", "c", "t">>

t_dmarc_full == <<"v", "=", "D", "M", "A", "R", "C", "1", ";", " ", "p", "=", "q", "u", "a", "r", "a", "n", "t", "i", "n", "e", ";", " ", "p", "c", "t", "=", "5", "0", ";", " ", "r", "u", "a", "=", "m", "a", "i", "l", "t", "o", ":", "a", "@", "x", ".", "c", "o", "m", ",", "m", "a", "i", "l", "t", "o", ":", "b", "@", "x", ".", "c", "o", "m">>

t_dmarc_none == <<"v", "=", "D", "M", "A", "R", "C", "1", ";", " ", "p", "=", "n", "o", "n", "e", ";", " ", "s", "p", "=", "r", "e", "j", "e", "c", "t">>

t_dmarc_nop == <<"v", "=", "D", "M", "A", "R", "C", "1", ";", " ", "r", "u", "a", "=", "m", "a", "i", "l", "t", "o", ":", "a", "@", "x", ".", "c", "o", "m">>

t_dmarc_bad == <<"v", "=", "d", "m", "a", "r", "c", "1", ";", " ", "b", "o", "g", "u", "s", ";", " ", "p", "=", "R", "e", "j", "e", "c", "t", " ", ";", " ", "p", "c", "t", "=", "x">>

DMARCTexts == {t_dmarc_reject, t_dmarc_full, t_dmarc_none, t_dmarc_nop, t_dmarc_bad}

DMARCAnswers == {ExchangeFailed, Answer(<<TXT(<<t_other>>)>>), Answer(<<TXT(<<t_other>>), TXT(<<t_dmarc_nop>>)>>), Answer(<<TXT(<<t_dmarc_reject>>)>>)}

SysDMARCAnswers == {Sys(TRUE, <<>>), Sys(FALSE, <<t_other>>), Sys(FALSE, <<t_dmarc_none>>)}

KeyAnswer == Answer(<<RR("DNSKEY", [alg |-> 13, tag |-> 2371]), RR("RRSIG", 1700), RR("RRSIG", 1600)>>)

DNSSECAnswers == {[dnskey |-> ExchangeFailed, ds |-> NoAnswer], [dnskey |-> KeyAnswer, ds |-> ExchangeFailed], [dnskey |-> NoAnswer, ds |-> NoAnswer], [dnskey |-> NoAnswer, ds |-> Answer(<<RR("DS", 2371)>>)]}

\* the responses to the selector queries: an error for the selectors in failing, an
\* answer for those in present, NXDOMAIN for the rest
SelectorAnswers(failing, present) == [s \in {CommonSelectors[i] : i \in 1..Len(CommonSelectors)} |-> IF s \in failing THEN ExchangeFailed ELSE IF s \in present THEN Answer(<<TXT(<<<<"v", "=", "D", "K", "I", "M", "1">>>>)>>) ELSE NXDomain]

DKIMAnswers == {[domainkey |-> ExchangeFailed, selector |-> SelectorAnswers({}, {"google"})], [domainkey |-> NoAnswer, selector |-> SelectorAnswers({"default"}, {"selector1", "google"})], [domainkey |-> NoAnswer, selector |-> SelectorAnswers({}, {})], [domainkey |-> NXDomain, selector |-> SelectorAnswers({"google"}, {"default"})]}

CollectOrder == <<"CollectMX", "CollectSPF", "CollectDMARC", "CollectDNSSEC", "CollectDKIM">>

\* RuleOrder as it would be if the DMARC policy rule were called before the SPF existence rule
RuleOrderSwapped == <<"CheckSPFPtrUsage", "CheckSPFIncludeLimit", "CheckSPFAllMechanism", "CheckDMARCPolicy", "CheckSPFExists", "CheckDMARCExists", "CheckDKIMExists", "CheckDNSSECEnabled", "CheckMXExists", "CheckMXHasIPs", "CheckMXHasIPv6", "CheckMXRedundancy", "CheckMXTooMany", "CheckMXLocalhost", "CheckMXPrivateIPs">>

RuleOrder == <<"CheckSPFPtrUsage", "CheckSPFIncludeLimit", "CheckSPFAllMechanism", "CheckSPFExists", "CheckDMARCPolicy", "CheckDMARCExists", "CheckDKIMExists", "CheckDNSSECEnabled", "CheckMXExists", "CheckMXHasIPs", "CheckMXHasIPv6", "CheckMXRedundancy", "CheckMXTooMany", "CheckMXLocalhost", "CheckMXPrivateIPs">>

\* the step that follows step name in order, last after the final one
After(order, name, last) == LET i == CHOOSE k \in 1..Len(order) : order[k] = name IN IF i = Len(order) THEN last ELSE order[i + 1]

\* NewDomainInfo: the profile CollectDNSInfo starts from
Init == /\ pc = CollectOrder[1]
        /\ run = 0
        /\ Domain \in Domains
        /\ asked = Nil
        /\ ret = EmptyMap
        /\ MXRecords = <<>>
        /\ SPFRecord = Nil
        /\ DMARCRecord = Nil
        /\ DMARCPolicy = ZeroPolicy
        /\ DNSSECInfo = Nil
        /\ DKIMInfo = Nil
        /\ Errors = EmptyMap
        /\ RuleResults = <<>>
        /\ firstRun = <<>>

\* one lookup of CollectDNSInfo: r is what the lookup chain returned
Collected(step, category, r) == /\ pc = step
                                /\ pc' = After(CollectOrder, step, "NewEnhancedDomainInfo")
                                /\ ret' = MapSet(ret, category, r)
                                /\ Errors' = IF r.err # "" THEN MapSet(Errors, category, r.err) ELSE Errors
                                /\ UNCHANGED <<run, Domain, asked, RuleResults, firstRun>>

\* Kept as it would be if the returned value were stored whatever the error
KeptAlways(field, got) == got.val

\* the profile field after a lookup: assigned only when the lookup returned no error
Kept(field, got) == IF got.err # "" THEN field ELSE got.val

CollectMX == \E r \in MXAnswers, hostq \in HostAnswers, sys \in SysMXAnswers :
    LET got == LookupMXWithFallback(r, hostq, sys) IN
    /\ Collected("CollectMX", "mx", got)
    /\ MXRecords' = Kept(MXRecords, got)
    /\ UNCHANGED <<SPFRecord, DMARCRecord, DMARCPolicy, DNSSECInfo, DKIMInfo>>

CollectSPF == \E r \in SPFAnswers, sys \in SysTXTAnswers :
    LET got == LookupSPFWithFallback(r, sys) IN
    /\ Collected("CollectSPF", "spf", got)
    /\ SPFRecord' = Kept(SPFRecord, got)
    /\ UNCHANGED <<MXRecords, DMARCRecord, DMARCPolicy, DNSSECInfo, DKIMInfo>>

CollectDMARC == \E q \in [Domains -> DMARCAnswers], sys \in [Domains -> SysDMARCAnswers] :
    LET got == LookupDMARCWithFallback(Domain, q, sys) IN
    /\ Collected("CollectDMARC", "dmarc", got)
    /\ DMARCRecord' = Kept(DMARCRecord, got)
    /\ DMARCPolicy' = IF got.err # "" THEN DMARCPolicy ELSE GetPolicy(got.val)
    /\ UNCHANGED <<MXRecords, SPFRecord, DNSSECInfo, DKIMInfo>>

CollectDNSSEC == \E q \in DNSSECAnswers, q2 \in DNSSECAnswers :
    LET got == CheckDNSSECWithFallback(Domain, q, q2) IN
    /\ Collected("CollectDNSSEC", "dnssec", got)
    /\ DNSSECInfo' = Kept(DNSSECInfo, got)
    /\ UNCHANGED <<MXRecords, SPFRecord, DMARCRecord, DMARCPolicy, DKIMInfo>>

CollectDKIM == \E q \in DKIMAnswers, q2 \in DKIMAnswers :
    LET got == CheckDKIMWithFallback(Domain, q, q2) IN
    /\ Collected("CollectDKIM", "dkim", got)
    /\ DKIMInfo' = Kept(DKIMInfo, got)
    /\ UNCHANGED <<MXRecords, SPFRecord, DMARCRecord, DMARCPolicy, DNSSECInfo>>

(***************************************************************************)
(* internal/rules: NewEnhancedDomainInfo and ApplyAllRules, one action per *)
(* rule, in the order of RuleOrder.                                        *)
(***************************************************************************)
profile == <<Domain, ret, MXRecords, SPFRecord, DMARCRecord, DMARCPolicy, DNSSECInfo, DKIMInfo, Errors>>

\* NewEnhancedDomainInfo wraps the profile with an empty finding list; firstRun keeps
\* the findings of the wrapper made before
NewEnhancedDomainInfo == /\ pc = "NewEnhancedDomainInfo"
                         /\ pc' = RuleOrder[1]
                         /\ run' = run + 1
                         /\ firstRun' = RuleResults
                         /\ RuleResults' = <<>>
                         /\ UNCHANGED asked
                         /\ UNCHANGED profile

\* a rule of ApplyAllRules appends its findings and hands over to the next rule
Apply(rule, findings) == /\ pc = rule
                         /\ pc' = After(RuleOrder, rule, "done")
                         /\ RuleResults' = RuleResults \o findings
                         /\ UNCHANGED <<run, asked, firstRun>>
                         /\ UNCHANGED profile

ApplyCheckSPFPtrUsage == Apply("CheckSPFPtrUsage", CheckSPFPtrUsage(SPFRecord))

ApplyCheckSPFIncludeLimit == Apply("CheckSPFIncludeLimit", CheckSPFIncludeLimit(SPFRecord))

ApplyCheckSPFAllMechanism == Apply("CheckSPFAllMechanism", CheckSPFAllMechanism(SPFRecord))

ApplyCheckSPFExists == Apply("CheckSPFExists", CheckSPFExists(SPFRecord))

ApplyCheckDMARCPolicy == Apply("CheckDMARCPolicy", CheckDMARCPolicy(DMARCRecord, DMARCPolicy))

ApplyCheckDMARCExists == Apply("CheckDMARCExists", CheckDMARCExists(DMARCRecord))

ApplyCheckDKIMExists == Apply("CheckDKIMExists", CheckDKIMExists(DKIMInfo))

ApplyCheckDNSSECEnabled == Apply("CheckDNSSECEnabled", CheckDNSSECEnabled(DNSSECInfo))

ApplyCheckMXExists == Apply("CheckMXExists", CheckMXExists(MXRecords))

ApplyCheckMXHasIPs == Apply("CheckMXHasIPs", CheckMXHasIPs(MXRecords))

ApplyCheckMXHasIPv6 == Apply("CheckMXHasIPv6", CheckMXHasIPv6(MXRecords))

ApplyCheckMXRedundancy == Apply("CheckMXRedundancy", CheckMXRedundancy(MXRecords))

ApplyCheckMXTooMany == Apply("CheckMXTooMany", CheckMXTooMany(MXRecords))

ApplyCheckMXLocalhost == Apply("CheckMXLocalhost", CheckMXLocalhost(MXRecords))

ApplyCheckMXPrivateIPs == \E findings \in CheckMXPrivateIPs(MXRecords) : Apply("CheckMXPrivateIPs", findings)

ApplyAllRules == \/ ApplyCheckSPFPtrUsage
                 \/ ApplyCheckSPFIncludeLimit
                 \/ ApplyCheckSPFAllMechanism
                 \/ ApplyCheckSPFExists
                 \/ ApplyCheckDMARCPolicy
                 \/ ApplyCheckDMARCExists
                 \/ ApplyCheckDKIMExists
                 \/ ApplyCheckDNSSECEnabled
                 \/ ApplyCheckMXExists
                 \/ ApplyCheckMXHasIPs
                 \/ ApplyCheckMXHasIPv6
                 \/ ApplyCheckMXRedundancy
                 \/ ApplyCheckMXTooMany
                 \/ ApplyCheckMXLocalhost
                 \/ ApplyCheckMXPrivateIPs

\* main: CollectDNSInfo, NewEnhancedDomainInfo, ApplyAllRules
Next == \/ CollectMX
        \/ CollectSPF
        \/ CollectDMARC
        \/ CollectDNSSEC
        \/ CollectDKIM
        \/ NewEnhancedDomainInfo
        \/ ApplyAllRules

Spec == Init /\ [][Next]_vars

(***************************************************************************)
(* The rule engine on its own: NewEnhancedDomainInfo and ApplyAllRules     *)
(* applied, twice, to a profile drawn from the records the parsers can     *)
(* build.                                                                  *)
(***************************************************************************)
Vocabulary == {<<"-", "a", "l", "l">>, <<"~", "a", "l", "l">>, <<"+", "a", "l", "l">>, <<"a", "l", "l">>, <<"p", "t", "r", ":", "a", ".", "i", "o">>, <<"i", "n", "c", "l", "u", "d", "e", ":", "a", ".", "i", "o">>, <<"m", "x">>}

t_include == <<"i", "n", "c", "l", "u", "d", "e", ":", "b", ".", "i", "o">>

RECURSIVE JoinTerms(_)
\* a "v=spf1" text whose terms are the given ones
JoinTerms(terms) == IF terms = <<>> THEN s_v_spf1 ELSE JoinTerms(SubSeq(terms, 1, Len(terms) - 1)) \o <<" ">> \o terms[Len(terms)]

TermLists == UNION {[1..n -> Vocabulary] : n \in 0..MaxTerms} \cup {[i \in 1..n |-> t_include] : n \in 0..MaxIncludes} \cup {[i \in 1..(n + 1) |-> IF i = 1 THEN s_ptr ELSE t_include] : n \in 0..MaxIncludes}

SPFInputs == {Nil} \cup {SPFRecordOf(JoinTerms(terms)) : terms \in TermLists}

DMARCInputs == {Nil} \cup {parseDMARCRecord(t, s_dmarc_label \o d_org) : t \in {x \in DMARCTexts : IsDMARC(x)}}

DNSSECInputs == {Nil} \cup {CheckDNSSEC(d_org, q).val : q \in {x \in DNSSECAnswers : CheckDNSSEC(d_org, x).err = ""}}

DKIMInputs == {Nil} \cup {CheckDKIM(d_org, q).val : q \in {x \in DKIMAnswers : CheckDKIM(d_org, x).err = ""}}

\* address lists resolveMXHost can return
RecordLists == {<<>>, <<Record("A", <<"1", "0", ".", "0", ".", "0", ".", "5">>)>>, <<Record("A", <<"1", "0", ".", "0", ".", "0", ".", "5">>), Record("A", <<"8", ".", "8", ".", "8", ".", "8">>)>>, <<Record("A", <<"1", "7", "2", ".", "1", "6", ".", "0", ".", "1">>), Record("A", <<"1", "9", "2", ".", "1", "6", "8", ".", "1", ".", "1">>), Record("A", <<"1", "2", "7", ".", "0", ".", "0", ".", "1">>), Record("A", <<"1", "6", "9", ".", "2", "5", "4", ".", "1", ".", "1">>)>>, <<Record("A", <<"8", ".", "8", ".", "8", ".", "8">>), Record("AAAA", <<"2", "0", "0", "1", ":", "d", "b", "8", ":", ":", "1">>)>>, <<Record("AAAA", <<"f", "d", "0", "0", ":", ":", "1">>)>>, <<Record("CNAME", <<"c", ".", "i", "o">>), Record("AAAA", <<"f", "e", "8", "0", ":", ":", "1">>)>>}

\* MX lists in ascending priority, as LookupMXWithFallback returns them; the two
\* host names are interchangeable, so the first record is always that of h_a.  One
\* list is longer than maxRecommendedMX.
MXInputs == UNION {{[i \in 1..n |-> MXRecord(h[i], 10 * i, rs[i])] : h \in {x \in [1..n -> Hosts] : n > 0 => x[1] = h_a}, rs \in [1..n -> RecordLists]} : n \in 0..MaxMX} \cup {[i \in 1..(maxRecommendedMX + 1) |-> MXRecord(IF i = 1 THEN h_a ELSE h_b, 10 * i, <<Record("A", <<"8", ".", "8", ".", "8", ".", "8">>)>>)]}

Profile(mx, spf, dmarc, dnssec, dkim) == [MXRecords |-> mx, SPFRecord |-> spf, DMARCRecord |-> dmarc, DNSSECInfo |-> dnssec, DKIMInfo |-> dkim]

\* two profiles to vary one category against: nothing found, and everything found
Absent == Profile(<<>>, Nil, Nil, Nil, Nil)

Present == Profile(<<MXRecord(h_a, 10, <<Record("A", <<"8", ".", "8", ".", "8", ".", "8">>)>>)>>, SPFRecordOf(t_spf_strict), parseDMARCRecord(t_dmarc_reject, s_dmarc_label \o d_org), CheckDNSSEC(d_org, [dnskey |-> KeyAnswer, ds |-> NoAnswer]).val, CheckDKIM(d_org, [domainkey |-> NoAnswer, selector |-> SelectorAnswers({}, {"google"})]).val)

RuleInputs == UNION {{[b EXCEPT !.MXRecords = x] : x \in MXInputs} \cup {[b EXCEPT !.SPFRecord = x] : x \in SPFInputs} \cup {[b EXCEPT !.DMARCRecord = x] : x \in DMARCInputs} \cup {[b EXCEPT !.DNSSECInfo = x] : x \in DNSSECInputs} \cup {[b EXCEPT !.DKIMInfo = x] : x \in DKIMInputs} : b \in {Absent, Present}}

InitRules == /\ pc = "NewEnhancedDomainInfo"
             /\ run = 0
             /\ Domain = d_org
             /\ asked = Nil
             /\ ret = EmptyMap
             /\ Errors = EmptyMap
             /\ \E in \in RuleInputs : /\ MXRecords = in.MXRecords
                                       /\ SPFRecord = in.SPFRecord
                                       /\ DMARCRecord = in.DMARCRecord
                                       /\ DMARCPolicy = IF in.DMARCRecord = Nil THEN ZeroPolicy ELSE GetPolicy(in.DMARCRecord)
                                       /\ DNSSECInfo = in.DNSSECInfo
                                       /\ DKIMInfo = in.DKIMInfo
             /\ RuleResults = <<>>
             /\ firstRun = <<>>

\* the caller wraps the same profile once more and runs the rules again
SecondRun == /\ pc = "done"
             /\ run = 1
             /\ pc' = "NewEnhancedDomainInfo"
             /\ UNCHANGED <<run, asked, RuleResults, firstRun>>
             /\ UNCHANGED profile

NextRules == \/ NewEnhancedDomainInfo
             \/ ApplyAllRules
             \/ SecondRun

SpecRules == InitRules /\ [][NextRules]_vars

(***************************************************************************)
(* The lookup chains on their own: one chain is called for a domain with   *)
(* resolver answers drawn from the sets below; asked keeps the answers (and *)
(* the queries sent, where a chain's queries depend on the answers).       *)
(* LookupDMARCWithFallback is run call by call.                            *)
(***************************************************************************)
\* deepest nesting of LookupDMARCWithFallback calls the model follows
MaxDepth == 3

d_tld == <<"i", "o">>

d_deep == <<"a", ".", "m", ".", "e", "x", ".", "i", "o">>

LookupDomains == {d_tld, d_org, d_sub, d_deep}

\* the domains a DMARC chain started for domain can ask about
AskedDomains(domain) == {domain} \cup (IF Len(Split(domain, ".")) > 2 THEN {OrgDomain(Split(domain, "."))} ELSE {})

\* the responses of one nameserver to CheckDKIM; the selector mail may be answered
\* with NOERROR and no record
LookupDKIMAnswers == {[domainkey |-> k, selector |-> [SelectorAnswers(failing, present) EXCEPT !["mail"] = mail]] : k \in {ExchangeFailed, NoAnswer, NXDomain}, failing \in {{}, {"default"}, {"google"}}, present \in {{}, {"default"}, {"selector1", "google"}, {"s2"}}, mail \in {NXDomain, NoAnswer}}

InitLookup == /\ pc = "lookup"
              /\ run = 0
              /\ Domain \in LookupDomains
              /\ asked = Nil
              /\ ret = EmptyMap
              /\ MXRecords = <<>>
              /\ SPFRecord = Nil
              /\ DMARCRecord = Nil
              /\ DMARCPolicy = ZeroPolicy
              /\ DNSSECInfo = Nil
              /\ DKIMInfo = Nil
              /\ Errors = EmptyMap
              /\ RuleResults = <<>>
              /\ firstRun = <<>>

\* a chain was called with the answers in and has returned got
Returned(in, got) == /\ pc = "lookup"
                     /\ pc' = "returned"
                     /\ asked' = in
                     /\ ret' = MapSet(EmptyMap, in.category, got)
                     /\ UNCHANGED <<run, Domain, RuleResults, firstRun>>
                     /\ UNCHANGED <<MXRecords, SPFRecord, DMARCRecord, DMARCPolicy, DNSSECInfo, DKIMInfo, Errors>>

CallLookupMXWithFallback == \E r \in MXAnswers, hostq \in HostAnswers, sys \in SysMXAnswers : Returned([category |-> "mx", primary |-> r, hosts |-> hostq, system |-> sys], LookupMXWithFallback(r, hostq, sys))

CallLookupSPFWithFallback == \E r \in SPFAnswers, sys \in SysTXTAnswers : Returned([category |-> "spf", primary |-> r, system |-> sys], LookupSPFWithFallback(r, sys))

CallCheckDNSSECWithFallback == \E q \in DNSSECAnswers, q2 \in DNSSECAnswers : Returned([category |-> "dnssec", primary |-> q, secondary |-> q2], CheckDNSSECWithFallback(Domain, q, q2))

CallCheckDKIMWithFallback == \E q \in LookupDKIMAnswers, q2 \in DKIMAnswers : Returned([category |-> "dkim", primary |-> q, secondary |-> q2, queries |-> CheckDKIMWithFallbackQueries(Domain, q, q2)], CheckDKIMWithFallback(Domain, q, q2))

\* the statement a call of LookupDMARCWithFallback reaches after its two lookups: the
\* call of itself for the organizational domain, or one of its returns
LookupDMARCWithFallbackBody(domain, q, sys) == IF RetriesOrgDomain(domain, q, sys) THEN "LookupDMARCWithFallback:recurse" ELSE "LookupDMARCWithFallback:return"

\* one call of LookupDMARCWithFallback for domain under the answers q, sys: the
\* statement it reaches, the domain it retries with and the value it returns there
LookupDMARCWithFallbackCall(domain, q, sys) == [exit |-> LookupDMARCWithFallbackBody(domain, q, sys),
                                                orgDomain |-> IF RetriesOrgDomain(domain, q, sys) THEN OrgDomain(Split(domain, ".")) ELSE domain,
                                                returns |-> IF RetriesOrgDomain(domain, q, sys) THEN Nil ELSE MapSet(EmptyMap, "dmarc", LookupDMARCWithFallbackReturn(domain, q, sys))]

\* the outermost call of LookupDMARCWithFallback runs its lookups; asked.domains lists
\* the domain of every call made so far, the innermost last, and asked.calls what a
\* call for each domain does under the answers of this run
CallLookupDMARCWithFallback == /\ pc = "lookup"
                               /\ \E q \in [AskedDomains(Domain) -> DMARCAnswers], sys \in [AskedDomains(Domain) -> SysDMARCAnswers] :
                                      /\ asked' = [category |-> "dmarc", primary |-> q, system |-> sys, domains |-> <<Domain>>,
                                                    calls |-> [d \in AskedDomains(Domain) |-> LookupDMARCWithFallbackCall(d, q, sys)]]
                                      /\ pc' = LookupDMARCWithFallbackBody(Domain, q, sys)
                               /\ UNCHANGED <<run, Domain, ret, RuleResults, firstRun>>
                               /\ UNCHANGED <<MXRecords, SPFRecord, DMARCRecord, DMARCPolicy, DNSSECInfo, DKIMInfo, Errors>>

\* the innermost call calls itself for the organizational domain, and that call runs
\* its lookups
RetryOrgDomain == /\ pc = "LookupDMARCWithFallback:recurse"
                  /\ Len(asked.domains) < MaxDepth
                  /\ asked' = [asked EXCEPT !.domains = Append(@, asked.calls[asked.domains[Len(asked.domains)]].orgDomain)]
                  /\ pc' = asked.calls[asked.calls[asked.domains[Len(asked.domains)]].orgDomain].exit
                  /\ UNCHANGED <<run, Domain, ret, RuleResults, firstRun>>
                  /\ UNCHANGED <<MXRecords, SPFRecord, DMARCRecord, DMARCPolicy, DNSSECInfo, DKIMInfo, Errors>>

\* the innermost call returns; its callers return what it returned
ReturnDMARC == /\ pc = "LookupDMARCWithFallback:return"
               /\ pc' = "returned"
               /\ ret' = asked.calls[asked.domains[Len(asked.domains)]].returns
               /\ UNCHANGED <<run, Domain, asked, RuleResults, firstRun>>
               /\ UNCHANGED <<MXRecords, SPFRecord, DMARCRecord, DMARCPolicy, DNSSECInfo, DKIMInfo, Errors>>

NextLookup == \/ CallLookupMXWithFallback
              \/ CallLookupSPFWithFallback
              \/ CallLookupDMARCWithFallback
              \/ RetryOrgDomain
              \/ ReturnDMARC
              \/ CallCheckDNSSECWithFallback
              \/ CallCheckDKIMWithFallback

\* a call of LookupDMARCWithFallback that has started runs its next statement
SpecLookup == InitLookup /\ [][NextLookup]_vars /\ WF_vars(RetryOrgDomain) /\ WF_vars(ReturnDMARC)

(***************************************************************************)
(* The DMARC parser on its own: parseDMARCRecord, then GetPolicy, applied  *)
(* to a raw text; asked keeps the text.                                    *)
(***************************************************************************)
\* most segments of a raw text put together from SegmentVocabulary
MaxSegments == 3

SegmentVocabulary == {<<"v", "=", "D", "M", "A", "R", "C", "1">>, <<"V", "=", "D", "M", "A", "R", "C", "1">>, <<"v", "=", "d", "m", "a", "r", "c", "1">>, <<" ", "p", " ", "=", " ", "n", "o", "n", "e", " ">>, <<"b", "o", "g", "u", "s">>, <<" ">>, <<"s", "p", "=", "r", "e", "j", "e", "c", "t">>, <<"p", "c", "t", "=", "5", "0", "a", "b", "c">>, <<"p", "c", "t", "=", "x">>, <<"r", "i", "=", "3", "6", "0", "0">>, <<"r", "i", "=", "x">>, <<"a", "d", "k", "i", "m", "=", "s">>}

t_dmarc_uris == <<"v", "=", "D", "M", "A", "R", "C", "1", ";", " ", "p", "=", "n", "o", "n", "e", ";", " ", "r", "u", "a", "=", " ", "m", "a", "i", "l", "t", "o", ":", "a", "@", "x", ".", "c", "o", "m", " ", ",", ",", " ", "m", "a", "i", "l", "t", "o", ":", "b", "@", "x", ".", "c", "o", "m", " ", ",", ";", " ", "r", "u", "f", "=", ",">>

RECURSIVE JoinSegments(_)
\* the segments with ";" between them
JoinSegments(segments) == IF Len(segments) = 1 THEN segments[1] ELSE JoinSegments(SubSeq(segments, 1, Len(segments) - 1)) \o <<";">> \o segments[Len(segments)]

\* the texts LookupDMARC and LookupDMARCWithFallback hand to parseDMARCRecord: those with the prefix
RawTexts == {t \in DMARCTexts \cup {t_dmarc_uris} \cup UNION {{JoinSegments(s) : s \in [1..n -> SegmentVocabulary]} : n \in 1..MaxSegments} : IsDMARC(t)}

InitParse == /\ pc = "parseDMARCRecord"
             /\ run = 0
             /\ Domain = d_org
             /\ \E t \in RawTexts : asked = [category |-> "dmarc", text |-> t]
             /\ ret = EmptyMap
             /\ MXRecords = <<>>
             /\ SPFRecord = Nil
             /\ DMARCRecord = Nil
             /\ DMARCPolicy = ZeroPolicy
             /\ DNSSECInfo = Nil
             /\ DKIMInfo = Nil
             /\ Errors = EmptyMap
             /\ RuleResults = <<>>
             /\ firstRun = <<>>

CallParseDMARCRecord == /\ pc = "parseDMARCRecord"
                        /\ pc' = "GetPolicy"
                        /\ DMARCRecord' = parseDMARCRecord(asked.text, s_dmarc_label \o Domain)
                        /\ UNCHANGED <<run, Domain, asked, ret, RuleResults, firstRun>>
                        /\ UNCHANGED <<MXRecords, SPFRecord, DMARCPolicy, DNSSECInfo, DKIMInfo, Errors>>

CallGetPolicy == /\ pc = "GetPolicy"
                 /\ pc' = "returned"
                 /\ DMARCPolicy' = GetPolicy(DMARCRecord)
                 /\ UNCHANGED <<run, Domain, asked, ret, RuleResults, firstRun>>
                 /\ UNCHANGED <<MXRecords, SPFRecord, DMARCRecord, DNSSECInfo, DKIMInfo, Errors>>

NextParse == \/ CallParseDMARCRecord
             \/ CallGetPolicy

SpecParse == InitParse /\ [][NextParse]_vars

(***************************************************************************)
(* CollectDNSInfo with its five lookups in flight at once: every lookup is *)
(* started in any order and returns in any order, and when it returns its  *)
(* block of CollectDNSInfo stores the result.  asked keeps the resolver     *)
(* answers of the run, pc the position of each lookup.                     *)
(***************************************************************************)
Lookups == {"mx", "spf", "dmarc", "dnssec", "dkim"}

\* resolver answers of one run: for each category one set that makes the lookup
\* fail and one that makes it succeed
ParAnswers == [mx : {[primary |-> r, hosts |-> h, system |-> sys] : r \in {x \in MXAnswers : x.err \/ x.answer # <<>>}, h \in {x \in HostAnswers : x[h_a] = HostPublic}, sys \in {x \in SysMXAnswers : x.err}},
               spf : {[primary |-> r, system |-> sys] : r \in {x \in SPFAnswers : x.err \/ Len(x.answer) > 1}, sys \in {x \in SysTXTAnswers : x.err}},
               dmarc : {[primary |-> [d \in Domains |-> r], system |-> [d \in Domains |-> sys]] : r \in {x \in DMARCAnswers : x.err \/ Len(x.answer) > 1}, sys \in {x \in SysDMARCAnswers : x.err}},
               dnssec : {[primary |-> q, secondary |-> q2] : q \in {x \in DNSSECAnswers : x.dnskey.err \/ x.ds.answer # <<>>}, q2 \in {x \in DNSSECAnswers : x.dnskey.err}},
               dkim : {[primary |-> q, secondary |-> q2] : q \in {x \in DKIMAnswers : x.domainkey.err \/ x.domainkey.rcode = "NXDOMAIN"}, q2 \in {x \in DKIMAnswers : x.domainkey.err}}]

\* what the lookup of a category returns under the answers in
Lookup(category, domain, in) == CASE category = "mx" -> LookupMXWithFallback(in.mx.primary, in.mx.hosts, in.mx.system)
                                  [] category = "spf" -> LookupSPFWithFallback(in.spf.primary, in.spf.system)
                                  [] category = "dmarc" -> LookupDMARCWithFallback(domain, in.dmarc.primary, in.dmarc.system)
                                  [] category = "dnssec" -> CheckDNSSECWithFallback(domain, in.dnssec.primary, in.dnssec.secondary)
                                  [] category = "dkim" -> CheckDKIMWithFallback(domain, in.dkim.primary, in.dkim.secondary)

\* StoreError as it would be if each block replaced the error map by a new one
StoreErrorAlone(errors, category, got) == IF got.err # "" THEN MapSet(EmptyMap, category, got.err) ELSE errors

\* info.Errors[category] = err, when the lookup returned an error
StoreError(errors, category, got) == IF got.err # "" THEN MapSet(errors, category, got.err) ELSE errors

InitPar == /\ pc = [c \in Lookups |-> "call"]
           /\ run = 0
           /\ Domain = d_sub
           /\ asked \in ParAnswers
           /\ ret = EmptyMap
           /\ MXRecords = <<>>
           /\ SPFRecord = Nil
           /\ DMARCRecord = Nil
           /\ DMARCPolicy = ZeroPolicy
           /\ DNSSECInfo = Nil
           /\ DKIMInfo = Nil
           /\ Errors = EmptyMap
           /\ RuleResults = <<>>
           /\ firstRun = <<>>

\* a lookup is called: it runs on its own client and message
StartLookup == \E c \in Lookups : /\ pc[c] = "call"
                                     /\ pc' = [pc EXCEPT ![c] = "running"]
                                     /\ UNCHANGED <<run, Domain, asked, RuleResults, firstRun>>
                                     /\ UNCHANGED <<ret, MXRecords, SPFRecord, DMARCRecord, DMARCPolicy, DNSSECInfo, DKIMInfo, Errors>>

\* the lookup of a category returns got, and the error branch of its block runs
LookupReturned(category, got) == /\ pc[category] = "running"
                                 /\ pc' = [pc EXCEPT ![category] = "done"]
                                 /\ ret' = MapSet(ret, category, got)
                                 /\ Errors' = StoreError(Errors, category, got)
                                 /\ UNCHANGED <<run, Domain, asked, RuleResults, firstRun>>

ReturnMX == /\ LookupReturned("mx", Lookup("mx", Domain, asked))
            /\ MXRecords' = Kept(MXRecords, Lookup("mx", Domain, asked))
            /\ UNCHANGED <<SPFRecord, DMARCRecord, DMARCPolicy, DNSSECInfo, DKIMInfo>>

ReturnSPF == /\ LookupReturned("spf", Lookup("spf", Domain, asked))
             /\ SPFRecord' = Kept(SPFRecord, Lookup("spf", Domain, asked))
             /\ UNCHANGED <<MXRecords, DMARCRecord, DMARCPolicy, DNSSECInfo, DKIMInfo>>

ReturnDMARCRecord == /\ LookupReturned("dmarc", Lookup("dmarc", Domain, asked))
                     /\ DMARCRecord' = Kept(DMARCRecord, Lookup("dmarc", Domain, asked))
                     /\ DMARCPolicy' = IF Lookup("dmarc", Domain, asked).err # "" THEN DMARCPolicy ELSE GetPolicy(Lookup("dmarc", Domain, asked).val)
                     /\ UNCHANGED <<MXRecords, SPFRecord, DNSSECInfo, DKIMInfo>>

ReturnDNSSEC == /\ LookupReturned("dnssec", Lookup("dnssec", Domain, asked))
                /\ DNSSECInfo' = Kept(DNSSECInfo, Lookup("dnssec", Domain, asked))
                /\ UNCHANGED <<MXRecords, SPFRecord, DMARCRecord, DMARCPolicy, DKIMInfo>>

ReturnDKIM == /\ LookupReturned("dkim", Lookup("dkim", Domain, asked))
              /\ DKIMInfo' = Kept(DKIMInfo, Lookup("dkim", Domain, asked))
              /\ UNCHANGED <<MXRecords, SPFRecord, DMARCRecord, DMARCPolicy, DNSSECInfo>>

NextPar == \/ StartLookup
           \/ ReturnMX
           \/ ReturnSPF
           \/ ReturnDMARCRecord
           \/ ReturnDNSSEC
           \/ ReturnDKIM

SpecPar == InitPar /\ [][NextPar]_vars

(***************************************************************************)
(* main with CollectDNSInfo as one step that keeps the resolver answers in *)
(* asked, followed by NewEnhancedDomainInfo and ApplyAllRules.  The MX     *)
(* answers range over all combinations with one failing and one           *)
(* succeeding set for each other lookup, and the DNSSEC and DKIM answers   *)
(* of both nameservers over all combinations with the other lookups        *)
(* failing.  asked.queries lists the queries of the two probes.            *)
(***************************************************************************)
CollectAnswers == {[in EXCEPT !.mx = [primary |-> r, hosts |-> h, system |-> sys]] : in \in ParAnswers, r \in MXAnswers, h \in HostAnswers, sys \in SysMXAnswers} \cup {[in EXCEPT !.dnssec = [primary |-> q, secondary |-> q2], !.dkim = [primary |-> k, secondary |-> k2]] : in \in {x \in ParAnswers : x.mx.primary.err /\ x.spf.primary.err /\ x.dmarc.primary[d_sub].err}, q \in DNSSECAnswers, q2 \in DNSSECAnswers, k \in DKIMAnswers, k2 \in DKIMAnswers}

InitCollect == /\ pc = "CollectDNSInfo"
               /\ run = 0
               /\ Domain = d_sub
               /\ asked = Nil
               /\ ret = EmptyMap
               /\ MXRecords = <<>>
               /\ SPFRecord = Nil
               /\ DMARCRecord = Nil
               /\ DMARCPolicy = ZeroPolicy
               /\ DNSSECInfo = Nil
               /\ DKIMInfo = Nil
               /\ Errors = EmptyMap
               /\ RuleResults = <<>>
               /\ firstRun = <<>>

\* CollectDNSInfo from its first statement to its return, under the answers in
CollectDNSInfo == \E in \in CollectAnswers :
    /\ pc = "CollectDNSInfo"
    /\ pc' = "NewEnhancedDomainInfo"
    /\ asked' = [mx |-> in.mx, spf |-> in.spf, dmarc |-> in.dmarc, dnssec |-> in.dnssec, dkim |-> in.dkim,
                  queries |-> [dnssec |-> CheckDNSSECWithFallbackQueries(Domain, in.dnssec.primary, in.dnssec.secondary), dkim |-> CheckDKIMWithFallbackQueries(Domain, in.dkim.primary, in.dkim.secondary)]]
    /\ ret' = [c \in Lookups |-> Lookup(c, Domain, in)]
    /\ MXRecords' = Kept(MXRecords, ret'["mx"])
    /\ SPFRecord' = Kept(SPFRecord, ret'["spf"])
    /\ DMARCRecord' = Kept(DMARCRecord, ret'["dmarc"])
    /\ DMARCPolicy' = IF ret'["dmarc"].err # "" THEN DMARCPolicy ELSE GetPolicy(ret'["dmarc"].val)
    /\ DNSSECInfo' = Kept(DNSSECInfo, ret'["dnssec"])
    /\ DKIMInfo' = Kept(DKIMInfo, ret'["dkim"])
    /\ Errors' = StoreError(StoreError(StoreError(StoreError(StoreError(Errors, "mx", ret'["mx"]), "spf", ret'["spf"]), "dmarc", ret'["dmarc"]), "dnssec", ret'["dnssec"]), "dkim", ret'["dkim"])
    /\ UNCHANGED <<run, Domain, RuleResults, firstRun>>

NextCollect == \/ CollectDNSInfo
               \/ NewEnhancedDomainInfo
               \/ ApplyAllRules

SpecCollect == InitCollect /\ [][NextCollect]_vars

(***************************************************************************)
(* Properties.                                                             *)
(***************************************************************************)
Finished == pc = "done"

\* the findings of rule id in the list
Findings(id) == SelectSeq(RuleResults, LAMBDA f : f.RuleID = id)

\* rule id appended exactly one finding, and its status is status
Yields(id, status) == Len(Findings(id)) = 1 /\ Findings(id)[1].Status = status

Statuses == {"pass", "warn", "fail", "info"}

Categories == <<"mx", "spf", "dmarc", "dnssec", "dkim">>

\* the dotted quad text lies in 10/8, 172.16/12, 192.168/16, 127/8 or 169.254/16
InPrivateIPv4(text) == LET f == Split(text, ".")  o == [i \in 1..Len(f) |-> ParseNum(f[i], 10, 0)] IN /\ Len(f) = 4
                                                                                                       /\ \A i \in 1..4 : IsDecField(f[i])
                                                                                                       /\ \/ o[1] = 10
                                                                                                          \/ o[1] = 172 /\ o[2] \in 16..31
                                                                                                          \/ o[1] = 192 /\ o[2] = 168
                                                                                                          \/ o[1] = 127
                                                                                                          \/ o[1] = 169 /\ o[2] = 254

\* the positions <<i, j>> of the A records of the MX list whose address is private
PrivateAHits == {h \in UNION {{<<i, j>> : j \in 1..Len(MXRecords[i].Records)} : i \in 1..Len(MXRecords)} : MXRecords[h[1]].Records[h[2]].Type = "A" /\ InPrivateIPv4(MXRecords[h[1]].Records[h[2]].Value)}

\* the finding f of rule 15 has a detail line for the host that lists the address
Names(f, host, address) == f.Status = "fail" /\ \E k \in 1..Len(f.Message.args[2]) : f.Message.args[2][k].host = host /\ \E n \in 1..Len(f.Message.args[2][k].ips) : f.Message.args[2][k].ips[n] = address

\* C1: once the rules have run over a profile in which some MX host has an A record
\* with an address in 10/8, 172.16/12, 192.168/16, 127/8 or 169.254/16, rule 15 has
\* yielded fail and its message names each such host with the offending address.
C1_PrivateIPv4Fails == (Finished /\ PrivateAHits # {}) => /\ Yields(15, "fail")
                                                          /\ \A h \in PrivateAHits : Names(Findings(15)[1], MXRecords[h[1]].Host, MXRecords[h[1]].Records[h[2]].Value)

UsesPtr(spf) == \E i \in 1..Len(spf.Terms) : HasPrefix(spf.Terms[i], s_ptr)

\* C2: every finding in the list has a status among pass, warn, fail and info, and
\* rule 1 reports an SPF record with a term equal to or prefixed with ptr as warn.
C2_StatusesClosed == /\ \A i \in 1..Len(RuleResults) : RuleResults[i].Status \in Statuses
                     /\ (Finished /\ SPFRecord # Nil /\ UsesPtr(SPFRecord)) => Yields(1, "warn")

\* C3: a second run of the rules over the same profile, from a fresh empty list,
\* ends with the same ordered finding list as the first run.
C3_Deterministic == (Finished /\ run = 2) => RuleResults = firstRun

EndsWithPlusAll(spf) == spf # Nil /\ Len(spf.Terms) > 0 /\ spf.Terms[Len(spf.Terms)] = s_plus_all

\* no term before the last one is -all or ~all once trimmed
NoEarlierProperAll(spf) == \A i \in 1..(Len(spf.Terms) - 1) : TrimSpace(spf.Terms[i]) \notin {s_minus_all, s_tilde_all}

IncludeCount(spf) == Cardinality({i \in 1..Len(spf.Terms) : HasPrefix(spf.Terms[i], s_include)})

\* C5: for a non-nil SPF record rule 2 yields fail when more than 10 terms are
\* prefixed include: and pass otherwise, and in both outcomes its message reports
\* the number of such terms.
C5_IncludeLimitReportsCount == (Finished /\ SPFRecord # Nil) => /\ Yields(2, IF IncludeCount(SPFRecord) > 10 THEN "fail" ELSE "pass")
                                                                /\ \E k \in 1..Len(Findings(2)[1].Message.args) : Findings(2)[1].Message.args[k] = IncludeCount(SPFRecord)

\* C6: when SPFRecord is nil, rules 1, 2 and 3 append nothing and rule 6 appends
\* exactly one finding, with status fail; the pass runs to its end.
C6_NilSPF == (Finished /\ SPFRecord = Nil) => /\ Findings(1) = <<>> /\ Findings(2) = <<>> /\ Findings(3) = <<>>
                                              /\ Yields(6, "fail")

C6_Witness == Finished /\ SPFRecord = Nil /\ Yields(6, "fail") /\ Len(RuleResults) > 5

\* the status rule 4 is to give a record, from the p tag of its tag map
PolicyStatus(record) == LET p == IF Tag.p \in DOMAIN record.Tags THEN record.Tags[Tag.p] ELSE <<>> IN IF p = s_reject THEN "pass" ELSE IF p = s_quarantine THEN "warn" ELSE "fail"

\* C7: rule 4 appends nothing when DMARCRecord is nil; otherwise it appends exactly
\* one finding: pass for the policy reject, warn for quarantine, fail for none and
\* for any other value, the empty policy of a record without p tag included.
C7_DMARCPolicy == Finished => IF DMARCRecord = Nil THEN Findings(4) = <<>> ELSE Yields(4, PolicyStatus(DMARCRecord))

C7_Witness == Finished /\ DMARCRecord # Nil /\ Tag.p \notin DOMAIN DMARCRecord.Tags /\ DMARCPolicy.Policy = <<>> /\ Yields(4, "fail")

\* C8: rule 5 yields pass whenever the DMARC lookup matched a record, also when the
\* record's validity flag is false, and yields fail only when DMARCRecord is nil.
C8_DMARCExists == Finished => /\ Len(Findings(5)) = 1
                              /\ ret["dmarc"].err = "" => DMARCRecord # Nil
                              /\ DMARCRecord # Nil => Yields(5, "pass")
                              /\ DMARCRecord = Nil <=> Yields(5, "fail")

C8_Witness == Finished /\ DMARCRecord # Nil /\ ~DMARCRecord.Valid /\ Tag.p \notin DOMAIN DMARCRecord.Tags /\ Yields(5, "pass")

\* the rule identifiers in category order: SPF, DMARC, DKIM, DNSSEC, MX
CategoryOrder == <<1, 2, 3, 6, 4, 5, 7, 8, 9, 10, 11, 12, 13, 14, 15>>

Position(id) == CHOOSE k \in 1..Len(CategoryOrder) : CategoryOrder[k] = id

\* C9: after a pass the list holds only identifiers 1..15, each at most once, in
\* category order.
C9_CategoryOrder == Finished => /\ \A i \in 1..Len(RuleResults) : RuleResults[i].RuleID \in 1..15
                                /\ \A i, j \in 1..Len(RuleResults) : i < j => Position(RuleResults[i].RuleID) < Position(RuleResults[j].RuleID)

C9_Witness == Finished /\ Len(RuleResults) = 15

\* the profile field of a category is nil
FieldNil(category) == CASE category = "mx" -> MXRecords = <<>>
                        [] category = "spf" -> SPFRecord = Nil
                        [] category = "dmarc" -> DMARCRecord = Nil
                        [] category = "dnssec" -> DNSSECInfo = Nil
                        [] category = "dkim" -> DKIMInfo = Nil

\* the categories whose lookup has returned when the program is at pc
Attempted == IF \E k \in 1..Len(CollectOrder) : pc = CollectOrder[k] THEN {Categories[j] : j \in 1..((CHOOSE k \in 1..Len(CollectOrder) : pc = CollectOrder[k]) - 1)} ELSE {Categories[j] : j \in 1..Len(Categories)}

\* C10: whatever the earlier lookups returned, every category is attempted in turn;
\* the error map has an entry for a category exactly when its lookup chain returned
\* an error, and the profile field of such a category is nil.
C10_CollectAll == /\ DOMAIN ret = Attempted
                  /\ DOMAIN Errors \subseteq DOMAIN ret
                  /\ \A c \in DOMAIN ret : (c \in DOMAIN Errors) <=> (ret[c].err # "")
                  /\ \A c \in DOMAIN Errors : FieldNil(c)

C10_Witness == /\ pc = "NewEnhancedDomainInfo"
               /\ DOMAIN Errors = {"dkim", "dnssec"}
               /\ ret["dkim"].val # Nil /\ DKIMInfo = Nil
               /\ ret["dnssec"].val.HasDNSKEY /\ DNSSECInfo = Nil
               /\ SPFRecord # Nil

\* the lookup chain of a category has returned
HasReturned(category) == pc = "returned" /\ asked.category = category

\* a name without its trailing root dot
StripRootDot(name) == IF name # <<>> /\ name[Len(name)] = "." THEN SubSeq(name, 1, Len(name) - 1) ELSE name

\* the MX answers a returned list was built from: those of the nameserver if it
\* answered NOERROR with at least one MX record, else those of the system resolver
MXTargets == LET mxs == SelectSeq(asked.primary.answer, LAMBDA rr : rr.type = "MX") IN IF ~asked.primary.err /\ asked.primary.rcode = "NOERROR" /\ mxs # <<>> THEN mxs ELSE asked.system.answer

\* the list holds one record for each target, with the target's stripped name and preference
SameTargets(list, targets) == /\ Len(list) = Len(targets)
                              /\ \E f \in [1..Len(list) -> 1..Len(list)] : /\ \A i, j \in 1..Len(list) : f[i] = f[j] => i = j
                                                                           /\ \A i \in 1..Len(list) : list[i].Host = StripRootDot(targets[f[i]].mx) /\ list[i].Priority = targets[f[i]].pref

\* C11: a list LookupMXWithFallback returns without error, by either path, is in
\* non-decreasing order of priority and holds exactly the MX targets of the answer
\* set it was built from, each without its trailing root dot.
C11_MXSortedAndComplete == (HasReturned("mx") /\ ret["mx"].err = "") => /\ \A i \in 1..(Len(ret["mx"].val) - 1) : ret["mx"].val[i].Priority <= ret["mx"].val[i + 1].Priority
                                                                        /\ SameTargets(ret["mx"].val, MXTargets)

C11_Witness == /\ HasReturned("mx") /\ ret["mx"].err = ""
               /\ asked.primary.err
               /\ Len(ret["mx"].val) = 2 /\ asked.system.answer[1].pref > asked.system.answer[2].pref
               /\ ret["mx"].val[1].Host = h_a

\* parseDMARCRecord has returned the record of the raw text
Parsed == pc \in {"GetPolicy", "returned"} /\ asked.category = "dmarc" /\ DMARCRecord # Nil

\* the non-empty segments of the raw text, trimmed, in order
Segments == SelectSeq([i \in 1..Len(Split(asked.text, ";")) |-> TrimSpace(Split(asked.text, ";")[i])], LAMBDA s : s # <<>>)

WellFormed(segment) == \E i \in 1..Len(segment) : segment[i] = "="

\* the key and the value of a well-formed segment: the text before and after its first "="
KeyOf(segment) == TrimSpace(SubSeq(segment, 1, (CHOOSE i \in 1..Len(segment) : segment[i] = "=" /\ \A j \in 1..(i - 1) : segment[j] # "=") - 1))

ValueOf(segment) == TrimSpace(SubSeq(segment, (CHOOSE i \in 1..Len(segment) : segment[i] = "=" /\ \A j \in 1..(i - 1) : segment[j] # "=") + 1, Len(segment)))

\* the value of the last well-formed segment with the key
LastValue(key) == LET hits == {i \in 1..Len(Segments) : WellFormed(Segments[i]) /\ KeyOf(Segments[i]) = key} IN ValueOf(Segments[CHOOSE i \in hits : \A j \in hits : j <= i])

\* every well-formed segment of the raw text is in the tag map
TagsKept == \A i \in 1..Len(Segments) : WellFormed(Segments[i]) => KeyOf(Segments[i]) \in DOMAIN DMARCRecord.Tags /\ DMARCRecord.Tags[KeyOf(Segments[i])] = LastValue(KeyOf(Segments[i]))

\* C12: the record parseDMARCRecord returns is invalid if a non-empty segment of the
\* text lacks "=", if the record's version is not exactly DMARC1, or if there is no
\* p tag; and every well-formed segment, before or after a malformed one, is in the
\* tag map.
C12_ValidityAndTags == Parsed => /\ ((\E i \in 1..Len(Segments) : ~WellFormed(Segments[i])) \/ DMARCRecord.Version # s_DMARC1 \/ (\A i \in 1..Len(Segments) : WellFormed(Segments[i]) => KeyOf(Segments[i]) # Tag.p)) => ~DMARCRecord.Valid
                                 /\ TagsKept

\* GetPolicy has returned the policy of the parsed record
Derived == pc = "returned" /\ asked.category = "dmarc" /\ DMARCRecord # Nil

HasTag(key) == key \in DOMAIN DMARCRecord.Tags

\* the text is a decimal number: an optional sign, then digits only
Numeric(s) == LET digits == IF s # <<>> /\ s[1] \in {"+", "-"} THEN Tail(s) ELSE s IN digits # <<>> /\ \A i \in 1..Len(digits) : digits[i] \in {"0", "1", "2", "3", "4", "5", "6", "7", "8", "9"}

\* C13: the derived policy has the stated defaults: the subdomain policy is the
\* policy when sp is absent, the percentage is 100 when pct is absent or not numeric,
\* the report interval is 86400 when ri is absent or not numeric, and the alignment
\* modes are relaxed ("r") when adkim and aspf are absent.
C13_PolicyDefaults == Derived => /\ ~HasTag(Tag.sp) => DMARCPolicy.SubdomainPolicy = DMARCPolicy.Policy
                                 /\ (~HasTag(Tag.pct) \/ ~Numeric(DMARCRecord.Tags[Tag.pct])) => DMARCPolicy.Percentage = 100
                                 /\ (~HasTag(Tag.ri) \/ ~Numeric(DMARCRecord.Tags[Tag.ri])) => DMARCPolicy.ReportInterval = 86400
                                 /\ ~HasTag(Tag.adkim) => DMARCPolicy.ADKIM = <<"r">>
                                 /\ ~HasTag(Tag.aspf) => DMARCPolicy.ASPF = <<"r">>

\* the text of the round-trip example
RoundTripText == <<"v", "=", "D", "M", "A", "R", "C", "1", ";", " ", "p", "=", "q", "u", "a", "r", "a", "n", "t", "i", "n", "e", ";", " ", "p", "c", "t", "=", "5", "0", ";", " ", "r", "u", "a", "=", "m", "a", "i", "l", "t", "o", ":", "a", "@", "x", ".", "c", "o", "m", ",", "m", "a", "i", "l", "t", "o", ":", "b", "@", "x", ".", "c", "o", "m">>

RoundTripTags == [k \in {<<"v">>, <<"p">>, <<"p", "c", "t">>, <<"r", "u", "a">>} |-> CASE k = <<"v">> -> <<"D", "M", "A", "R", "C", "1">> [] k = <<"p">> -> <<"q", "u", "a", "r", "a", "n", "t", "i", "n", "e">> [] k = <<"p", "c", "t">> -> <<"5", "0">> [] k = <<"r", "u", "a">> -> <<"m", "a", "i", "l", "t", "o", ":", "a", "@", "x", ".", "c", "o", "m", ",", "m", "a", "i", "l", "t", "o", ":", "b", "@", "x", ".", "c", "o", "m">>]

\* the comma-separated items of a value, trimmed, the empty ones dropped
Items(value) == SelectSeq([i \in 1..Len(Split(value, ",")) |-> TrimSpace(Split(value, ",")[i])], LAMBDA s : s # <<>>)

\* C14: the example text parses to exactly the tags v, p, pct and rua with their
\* values, and its policy has percentage 50 and the two report addresses in source
\* order; for every record with a rua tag the aggregate-report list is the tag's
\* comma-separated items, trimmed, without the empty ones.
C14_RoundTrip == /\ (Parsed /\ asked.text = RoundTripText) => DMARCRecord.Tags = RoundTripTags
                 /\ (Derived /\ asked.text = RoundTripText) => DMARCPolicy.Percentage = 50 /\ DMARCPolicy.AggregateReportURI = <<<<"m", "a", "i", "l", "t", "o", ":", "a", "@", "x", ".", "c", "o", "m">>, <<"m", "a", "i", "l", "t", "o", ":", "b", "@", "x", ".", "c", "o", "m">>>>
                 /\ (Derived /\ HasTag(Tag.rua)) => DMARCPolicy.AggregateReportURI = Items(DMARCRecord.Tags[Tag.rua])

C14_Witness == Derived /\ asked.text = RoundTripText /\ DMARCRecord.Valid /\ Len(DMARCPolicy.AggregateReportURI) = 2

\* the nameserver answered the query with NOERROR
Answered(r) == ~r.err /\ r.rcode = "NOERROR"

\* C15: the MX chain uses the system resolver when the primary lookup errors or
\* returns an empty list, and otherwise returns the primary list; the SPF and DMARC
\* chains return what the primary lookup returned, without a fallback, whenever the
\* primary query was answered, also when the answer holds no matching record.
C15_FallbackTriggers == /\ HasReturned("mx") => IF LookupMX(asked.primary, asked.hosts).err # "" \/ LookupMX(asked.primary, asked.hosts).val = <<>> THEN (IF asked.system.err THEN ret["mx"].err # "" ELSE ret["mx"].err = "" /\ SameTargets(ret["mx"].val, asked.system.answer)) ELSE ret["mx"] = LookupMX(asked.primary, asked.hosts)
                        /\ (HasReturned("spf") /\ Answered(asked.primary)) => ret["spf"] = LookupSPF(asked.primary)
                        /\ (HasReturned("dmarc") /\ Answered(asked.primary[Domain])) => ret["dmarc"] = LookupDMARC(Domain, asked.primary[Domain])

\* the positions of the dots of a name
Dots(name) == {i \in 1..Len(name) : name[i] = "."}

\* the text after the last but one dot of a name with at least two dots
LastTwoLabels(name) == SubSeq(name, (CHOOSE i \in Dots(name) : Cardinality({j \in Dots(name) : j > i}) = 1) + 1, Len(name))

\* a DMARC chain is running or has returned
InDMARCChain == pc \in {"LookupDMARCWithFallback:recurse", "LookupDMARCWithFallback:return", "returned"} /\ asked.category = "dmarc"

\* the calls of the chain: at most one retry, taken only after the system resolver
\* failed for a domain of more than two labels, and made for its last two labels
OneRetry == InDMARCChain => /\ Len(asked.domains) <= 2
                            /\ asked.domains[1] = Domain
                            /\ Len(asked.domains) = 2 => /\ asked.system[Domain].err
                                                         /\ Cardinality(Dots(Domain)) > 1
                                                         /\ asked.domains[2] = LastTwoLabels(Domain)
                                                         /\ Cardinality(Dots(asked.domains[2])) = 1

\* C16: LookupDMARCWithFallback returns for every domain and every pattern of
\* resolver failures, and calls itself at most once: only when net.LookupTXT failed
\* and the domain has more than two labels, and then for the last two labels.
C16_DMARCChainTerminates == []OneRetry /\ ((pc \in {"LookupDMARCWithFallback:recurse", "LookupDMARCWithFallback:return"}) ~> (pc = "returned"))

C16_Witness == /\ HasReturned("dmarc") /\ Domain = d_deep
               /\ asked.domains = <<d_deep, d_org>>
               /\ asked.system[d_org].err /\ ret["dmarc"].err # ""

\* the positions of the terms of an SPF record that are -all, ~all, +all or all
AllPositions(spf) == {i \in 1..Len(spf.Terms) : TrimSpace(spf.Terms[i]) \in {s_minus_all, s_tilde_all, s_plus_all, s_all}}

\* the first of them
FirstAllPosition(spf) == CHOOSE i \in AllPositions(spf) : \A j \in AllPositions(spf) : i <= j

Winner == IF asked.primary.domainkey.err THEN [server |-> "8.8.4.4:53", answers |-> asked.secondary] ELSE [server |-> "nameserver", answers |-> asked.primary]

\* the names queried at a server, in the order of the queries
QueriedAt(server) == LET sent == SelectSeq(asked.queries, LAMBDA x : x.server = server) IN [i \in 1..Len(sent) |-> sent[i].name]

\* the selectors the answers show to exist: NOERROR with at least one record
Existing(answers) == SelectSeq(CommonSelectors, LAMBDA x : ~answers.selector[x].err /\ answers.selector[x].rcode = "NOERROR" /\ answers.selector[x].answer # <<>>)

\* C18: when CheckDKIM returns without error it has queried _domainkey and then every
\* selector of CommonSelectors exactly once, in order, whatever the selector queries
\* returned; Selectors holds the selectors answered with NOERROR and at least one
\* record, in that order, and HasSelectors is true exactly when Selectors is not empty.
C18_EverySelectorProbed == (HasReturned("dkim") /\ ret["dkim"].err = "") => /\ QueriedAt(Winner.server) = <<"_domainkey">> \o CommonSelectors
                                                                          /\ ret["dkim"].val.Selectors = Existing(Winner.answers)
                                                                          /\ ret["dkim"].val.HasSelectors <=> ret["dkim"].val.Selectors # <<>>

C18_Witness == /\ HasReturned("dkim") /\ ret["dkim"].err = ""
               /\ asked.primary.selector["default"].err
               /\ asked.primary.selector["mail"] = NoAnswer
               /\ ret["dkim"].val.Selectors = <<"selector1", "google">>
               /\ Len(QueriedAt("nameserver")) = 17

\* the status rule 7 is to give the DKIM information of the profile
DKIMStatus == IF DKIMInfo = Nil THEN "info" ELSE IF DKIMInfo.HasDomainKey /\ DKIMInfo.ResponseCode = "NOERROR" THEN (IF DKIMInfo.HasSelectors THEN "pass" ELSE "warn") ELSE "fail"

\* C19: rule 7 appends exactly one finding: info when DKIMInfo is nil; pass or warn,
\* by whether selectors were discovered, when HasDomainKey is set and the response
\* code is NOERROR; fail in every other case, discovered selectors or not.
C19_DKIMExistsOneFinding == Finished => Yields(7, DKIMStatus)

C19_Witness == /\ Finished /\ DKIMInfo # Nil
               /\ DKIMInfo.HasSelectors /\ DKIMInfo.ResponseCode = "NXDOMAIN"
               /\ Yields(7, "fail")

\* every lookup has returned
Joined == \A c \in Lookups : pc[c] = "done"

\* the error map CollectDNSInfo builds when it runs its blocks one after the other
SequentialErrors == StoreError(StoreError(StoreError(StoreError(StoreError(EmptyMap, "mx", Lookup("mx", Domain, asked)), "spf", Lookup("spf", Domain, asked)), "dmarc", Lookup("dmarc", Domain, asked)), "dnssec", Lookup("dnssec", Domain, asked)), "dkim", Lookup("dkim", Domain, asked))

\* the value a block leaves in its field of a new profile
SequentialField(category, zero) == Kept(zero, Lookup(category, Domain, asked))

FromSystemResolver == /\ pc # "CollectDNSInfo"
                      /\ asked.mx.primary.err \/ asked.mx.primary.rcode # "NOERROR" \/ \A i \in 1..Len(asked.mx.primary.answer) : asked.mx.primary.answer[i].type # "MX"
                      /\ ~asked.mx.system.err

\* C21: every MX record that came from the system resolver has an empty address
\* list, one record per answer of net.LookupMX, and when that list is not empty
\* rule 10 yields warn and names the host of every MX record.
C21_FallbackMXUnresolved == FromSystemResolver => /\ Len(MXRecords) = Len(asked.mx.system.answer)
                                                  /\ \A i \in 1..Len(MXRecords) : MXRecords[i].Records = <<>>
                                                  /\ (Finished /\ MXRecords # <<>>) => /\ Yields(10, "warn")
                                                                                       /\ Findings(10)[1].Message.args = <<[i \in 1..Len(MXRecords) |-> MXRecords[i].Host]>>

C21_Witness == /\ FromSystemResolver /\ Finished
               /\ Len(MXRecords) = 2
               /\ asked.mx.primary.rcode = "NOERROR" /\ ~asked.mx.primary.err
               /\ Yields(10, "warn")

\* the names queried for a category at a server, in the order of the queries
ProbeQueries(category, server) == LET sent == SelectSeq(asked.queries[category], LAMBDA x : x.server = server) IN [i \in 1..Len(sent) |-> sent[i].name]

\* a probe of a nameserver with these answers returns an error
DNSSECFails(q) == q.dnskey.err \/ q.ds.err

DKIMFails(q) == q.domainkey.err

\* the profile field holds what one whole probe of the answers q finds, the first
\* probe if it returned no error, else the second if that returned none, else nil
OneProbe(field, fails1, whole1, fails2, whole2) == IF ~fails1 THEN field = whole1 ELSE IF ~fails2 THEN field = whole2 ELSE field = Nil

\* C22: when the first DNSSEC or DKIM probe returns an error at any step, the probe
\* is repeated from its first query at 8.8.4.4, the profile field holds what that
\* second probe alone found, and when both probes fail the field is nil and the
\* category has an entry in the error map.
C22_NoMixedProbes == pc # "CollectDNSInfo" => /\ OneProbe(DNSSECInfo, DNSSECFails(asked.dnssec.primary), CheckDNSSEC(Domain, asked.dnssec.primary).val, DNSSECFails(asked.dnssec.secondary), CheckDNSSEC(Domain, asked.dnssec.secondary).val)
                                              /\ OneProbe(DKIMInfo, DKIMFails(asked.dkim.primary), CheckDKIM(Domain, asked.dkim.primary).val, DKIMFails(asked.dkim.secondary), CheckDKIM(Domain, asked.dkim.secondary).val)
                                              /\ DNSSECFails(asked.dnssec.primary) => ProbeQueries("dnssec", "8.8.4.4:53") = (IF asked.dnssec.secondary.dnskey.err THEN <<"DNSKEY">> ELSE <<"DNSKEY", "DS">>)
                                              /\ ~DNSSECFails(asked.dnssec.primary) => ProbeQueries("dnssec", "8.8.4.4:53") = <<>>
                                              /\ DKIMFails(asked.dkim.primary) => (ProbeQueries("dkim", "8.8.4.4:53") # <<>> /\ Head(ProbeQueries("dkim", "8.8.4.4:53")) = "_domainkey")
                                              /\ ~DKIMFails(asked.dkim.primary) => ProbeQueries("dkim", "8.8.4.4:53") = <<>>
                                              /\ (DNSSECInfo = Nil) <=> ("dnssec" \in DOMAIN Errors)
                                              /\ (DKIMInfo = Nil) <=> ("dkim" \in DOMAIN Errors)

C22_Witness == /\ pc = "done"
               /\ ~asked.dnssec.primary.dnskey.err /\ asked.dnssec.primary.dnskey.answer # <<>> /\ asked.dnssec.primary.ds.err
               /\ ~DNSSECFails(asked.dnssec.secondary) /\ asked.dnssec.secondary.dnskey.answer = <<>>
               /\ DNSSECInfo # Nil /\ ~DNSSECInfo.HasDNSKEY /\ DNSSECInfo.HasDS
               /\ ProbeQueries("dnssec", "nameserver") = <<"DNSKEY", "DS">>
               /\ DKIMFails(asked.dkim.primary) /\ DKIMInfo # Nil

\* 1 for a condition that holds, 0 for one that does not
Count(condition) == IF condition THEN 1 ELSE 0

\* C23: one pass of ApplyAllRules appends 5 + 3 * [SPFRecord non-nil] +
\* [DMARCRecord non-nil] + 6 * [MX list non-empty] findings: one each for rules 5
\* to 9, one each for rules 1 to 3 when the SPF record is present, one for rule 4
\* when the DMARC record is present, one each for rules 10 to 15 when the MX list
\* is not empty.
C23_FindingCount == Finished => /\ Len(RuleResults) = 5 + 3 * Count(SPFRecord # Nil) + Count(DMARCRecord # Nil) + 6 * Count(MXRecords # <<>>)
                                /\ \A id \in 5..9 : Len(Findings(id)) = 1
                                /\ \A id \in 1..3 : Len(Findings(id)) = Count(SPFRecord # Nil)
                                /\ Len(Findings(4)) = Count(DMARCRecord # Nil)
                                /\ \A id \in 10..15 : Len(Findings(id)) = Count(MXRecords # <<>>)

C23_Witness == /\ Finished /\ SPFRecord # Nil /\ DMARCRecord # Nil
               /\ Len(MXRecords) > 5
               /\ Yields(13, "warn") /\ Yields(14, "pass") /\ Yields(15, "pass")

====
